---- MODULE Spec2Model ----
(***************************************************************************)
(* Google Tasks MCP server (src/server.py): the credential provider, the   *)
(* task-list resolver and the ten tool handlers, as a state machine over   *)
(* the remote account (task lists, tasks), the host's token file and the   *)
(* invocation in progress.                                                 *)
(*                                                                         *)
(* Python values: a str whose characters matter (title, notes, due,        *)
(* query) is a tuple of one-character strings; an identifier (task list    *)
(* id, task id, status) is a TLA+ string; a dict is a function from its    *)
(* keys; None is NoneStr / NoneId.                                         *)
(***************************************************************************)
EXTENDS Integers, Sequences, FiniteSets, TLC

\* ------------------------------------------------------------- bounds
\* Number of task-list identifiers the remote account can hold.
MaxLists == 2

\* Invocations that run their credential provider at the same time.
MaxInvocations == 2

ListName == <<"L1", "L2", "L3", "L4">>
ListIds == {ListName[i] : i \in 1..MaxLists}
\* The task identifiers the remote account hands out.
TaskIds == {"t1", "t2"}
TaskName == <<"t1", "t2">>

\* ------------------------------------------------------------- values
NoneStr == <<"<None>">>
NoneId == "<None>"
DEFAULT == "@default"

\* A task-list id no account holds, and a task id no account holds.
UnknownList == "L9"
UnknownTask == "t9"

Range(s) == {s[i] : i \in 1..Len(s)}

\* dict update: g's items over f's.
Merge(f, g) == [k \in (DOMAIN f) \cup (DOMAIN g) |-> IF k \in DOMAIN g THEN g[k] ELSE f[k]]

\* dict.get(k, default)
Get(d, k, default) == IF k \in DOMAIN d THEN d[k] ELSE default

\* ------------------------------------------------------------- text
\* A character is written as itself when it is printable ASCII and as its
\* code point ("U+00C9") otherwise.  Ascii holds U+0020..U+007E in order
\* (the grave accent as its code point).
Ascii == <<" ", "!", "\"", "#", "$", "%", "&", "'", "(", ")", "*", "+", ",", "-", ".", "/",
          "0", "1", "2", "3", "4", "5", "6", "7", "8", "9", ":", ";", "<", "=", ">", "?",
          "@", "A", "B", "C", "D", "E", "F", "G", "H", "I", "J", "K", "L", "M", "N", "O",
          "P", "Q", "R", "S", "T", "U", "V", "W", "X", "Y", "Z", "[", "\\", "]", "^", "_",
          "U+0060", "a", "b", "c", "d", "e", "f", "g", "h", "i", "j", "k", "l", "m", "n",
          "o", "p", "q", "r", "s", "t", "u", "v", "w", "x", "y", "z", "{", "|", "}", "~">>

\* ord(c)
Ord(c) ==
    LET hex == <<"0", "1", "2", "3", "4", "5", "6", "7", "8", "9",
                 "A", "B", "C", "D", "E", "F">>
        h(i) == (CHOOSE k \in 1..16 : hex[k] = SubSeq(c, i, i)) - 1
        pow(k) == CASE k = 0 -> 1 [] k = 1 -> 16 [] k = 2 -> 256 [] k = 3 -> 4096
                    [] k = 4 -> 65536 [] k = 5 -> 1048576
        term(i) == IF i <= Len(c) THEN h(i) * pow(Len(c) - i) ELSE 0
    IN  IF Len(c) = 1 THEN 31 + (CHOOSE k \in 1..95 : Ascii[k] = c)
        ELSE term(3) + term(4) + term(5) + term(6) + term(7) + term(8)

\* chr(n)
Chr(n) ==
    LET hex == <<"0", "1", "2", "3", "4", "5", "6", "7", "8", "9",
                 "A", "B", "C", "D", "E", "F">>
        at(p) == hex[((n \div p) % 16) + 1]
    IN  IF n \in 32..126 THEN Ascii[n - 31]
        ELSE "U+" \o (IF n >= 1048576 THEN at(1048576) ELSE "")
                  \o (IF n >= 65536 THEN at(65536) ELSE "")
                  \o at(4096) \o at(256) \o at(16) \o at(1)

DigitChars == <<"0", "1", "2", "3", "4", "5", "6", "7", "8", "9">>

\* int(c) for one character, -1 where int() raises: the decimal digits of
\* str are those of every script (category Nd, Unicode 14), ten in a row from
\* each script's zero.
DigitVal(c) ==
    LET zeros == {48, 1632, 1776, 1984, 2406, 2534, 2662, 2790, 2918, 3046, 3174, 3302, 3430,
              3558, 3664, 3792, 3872, 4160, 4240, 6112, 6160, 6470, 6608, 6784, 6800, 6992,
              7088, 7232, 7248, 42528, 43216, 43264, 43472, 43504, 43600, 44016, 65296,
              66720, 68912, 69734, 69872, 69942, 70096, 70384, 70736, 70864, 71248, 71360,
              71472, 71904, 72016, 72784, 73040, 73120, 92768, 92864, 93008, 120782, 120792,
              120802, 120812, 120822, 123200, 123632, 125264, 130032}
        val(n) == IF n \in 48..57 THEN n - 48
                  ELSE IF n < 128 THEN -1
                  ELSE IF \E z \in zeros : n \in z..(z + 9)
                  THEN n - (CHOOSE z \in zeros : n \in z..(z + 9))
                  ELSE -1
    IN  val(Ord(c))

\* \d of a str pattern: any decimal digit, not only 0-9.
IsDigit(c) == DigitVal(c) >= 0

\* 'T' in due
HasT(s) == "T" \in Range(s)

\* str(n) for n >= 0
RECURSIVE IntStr(_)
IntStr(n) == IF n < 10 THEN <<DigitChars[n + 1]>>
             ELSE IntStr(n \div 10) \o <<DigitChars[(n % 10) + 1]>>

\* "%02d" % n
Pad2(n) == <<DigitChars[(n \div 10) + 1], DigitChars[(n % 10) + 1]>>

IsLeap(y) == (y % 4 = 0) /\ ((y % 100 # 0) \/ (y % 400 = 0))
DaysInMonth(y, m) ==
    IF m = 2 THEN (IF IsLeap(y) THEN 29 ELSE 28)
    ELSE IF m \in {4, 6, 9, 11} THEN 30 ELSE 31

\* datetime.strptime(due, "%Y-%m-%d"): the directive regexes
\*   %Y (\d\d\d\d)   %m (1[0-2]|0[1-9]|[1-9])   %d (3[0-1]|[1-2]\d|0[1-9]|[1-9]| [1-9])
\* matched as a prefix, then "unconverted data remains" and the calendar check.
\* The classes [0-2], [1-9] hold ASCII characters only; \d is IsDigit.
\* [ok |-> FALSE] is ValueError.
MonthLen(s, i) ==
    LET one_to_nine(c) == c \in Range(DigitChars) /\ c # "0"
    IN  IF i + 1 <= Len(s) /\ ( (s[i] = "1" /\ s[i + 1] \in {"0", "1", "2"})
                             \/ (s[i] = "0" /\ one_to_nine(s[i + 1])) )
        THEN 2
        ELSE IF i <= Len(s) /\ one_to_nine(s[i]) THEN 1 ELSE 0

DayLen(s, i) ==
    LET one_to_nine(c) == c \in Range(DigitChars) /\ c # "0"
    IN  IF i + 1 <= Len(s) /\ ( (s[i] = "3" /\ s[i + 1] \in {"0", "1"})
                             \/ (s[i] \in {"1", "2"} /\ IsDigit(s[i + 1]))
                             \/ (s[i] = "0" /\ one_to_nine(s[i + 1])) )
        THEN 2
        ELSE IF i <= Len(s) /\ one_to_nine(s[i]) THEN 1
        ELSE IF i + 1 <= Len(s) /\ s[i] = " " /\ one_to_nine(s[i + 1]) THEN 2
        ELSE 0

Num(s, i, n) ==
    IF n = 1 THEN DigitVal(s[i])
    ELSE IF s[i] = " " THEN DigitVal(s[i + 1])
    ELSE 10 * DigitVal(s[i]) + DigitVal(s[i + 1])

strptime(s) ==
    LET bad == [ok |-> FALSE]
    IN  IF ~(Len(s) >= 5 /\ (\A i \in 1..4 : IsDigit(s[i])) /\ s[5] = "-") THEN bad
        ELSE LET ml == MonthLen(s, 6)
             IN  IF ml = 0 \/ Len(s) < 6 + ml \/ s[6 + ml] # "-" THEN bad
                 ELSE LET dl == DayLen(s, 7 + ml)
                          y  == 1000 * DigitVal(s[1]) + 100 * DigitVal(s[2])
                                + 10 * DigitVal(s[3]) + DigitVal(s[4])
                          m  == Num(s, 6, ml)
                          d  == Num(s, 7 + ml, dl)
                      IN  IF dl = 0 THEN bad
                          ELSE IF Len(s) # 6 + ml + dl THEN bad
                          ELSE IF y < 1 \/ d > DaysInMonth(y, m) THEN bad
                          ELSE [ok |-> TRUE, year |-> y, month |-> m, day |-> d]

MidnightSuffix == <<"T", "0", "0", ":", "0", "0", ":", "0", "0", ".", "0", "0", "0", "Z">>

\* date_obj.strftime("%Y-%m-%dT00:00:00.000Z"); %Y is the C library's, which
\* does not pad a year below 1000.
strftime(dt) ==
    IntStr(dt.year) \o <<"-">> \o Pad2(dt.month) \o <<"-">> \o Pad2(dt.day) \o MidnightSuffix

\* create_task's due formatting: [ok |-> FALSE] is the ValueError branch.
FormatDue(due) ==
    IF HasT(due) THEN [ok |-> TRUE, due |-> due]
    ELSE LET dt == strptime(due)
         IN  IF dt.ok THEN [ok |-> TRUE, due |-> strftime(dt)] ELSE [ok |-> FALSE]

\* ------------------------------------------------------------- state
VARIABLES
    token_env,         \* GOOGLE_TASKS_TOKEN of the server process
    token_file,        \* token.json beside the script
    credentials_file,  \* whether credentials.json (the OAuth client secret) exists
    tasklists,         \* the remote account's task lists, in the order the remote enumerates them
    tasks,             \* the remote account's tasks: task id -> [tasklist, resource] or NoTask
    pc,                \* "idle": the host awaits a tool call; "responded": a handler has run
    request,           \* the tool call being served: [tool, args]
    log,               \* what the invocation did, in order: provider steps and remote calls
    result,            \* how the handler ended: [kind |-> "return", value] or [kind |-> "raise", exc]
    failed_before      \* history: an earlier invocation of this process got no service

vars == <<token_env, token_file, credentials_file, tasklists, tasks, pc, request, log, result,
          failed_before>>

NoTask == [present |-> FALSE]
NoRequest == [tool |-> "none"]
NoResult == [kind |-> "none"]

\* ------------------------------------------------------------- credentials
\* A google.oauth2 Credentials object: token (an access token is held),
\* expired (its expiry has passed), refresh_token (one is held).
\* creds.valid is "token is not None and not expired".
Valid(c) == c.token /\ ~c.expired

UnsetEnv == [kind |-> "unset"]
AbsentFile == [kind |-> "absent"]
\* text that json.loads / from_authorized_user_info rejects, in either place
Garbage == [kind |-> "garbage"]
Stored(c) == [kind |-> "creds", creds |-> c]

FreshCreds == [token |-> TRUE, expired |-> FALSE, refresh_token |-> TRUE]
Refreshed(c) == [c EXCEPT !.token = TRUE, !.expired = FALSE]

\* What the host and the network decide during one get_google_tasks_service():
\*   acquire  creds.refresh(Request()) / flow.run_local_server() succeeds
\*   save     "ok", "open_fails" (open(TOKEN_FILE, 'w') raises) or
\*            "write_fails" (the file is opened, so truncated, and write raises)
\*   build    build('tasks', 'v1', ...) succeeds
ProviderOutcomes == [acquire : BOOLEAN, save : {"ok", "open_fails", "write_fails"}, build : BOOLEAN]

NoService == [ok |-> FALSE]

\* Mutant: the save leaves the token file as it was.
save_token_skipped(file, c, o) == file

\* "Save the credentials for the next run": the token file afterwards.
SaveToken(file, c, o) ==
    IF o.save = "ok" THEN Stored(c)
    ELSE IF o.save = "open_fails" THEN file
    ELSE Garbage

\* A step of the provider, and whether it raised.
Step(op, ok) == [op |-> op, exc |-> IF ok THEN "" ELSE "Exception"]

\* Mutant: a failed refresh falls through to the consent flow.
provider_refresh_falls_through(env, file, secret, o) ==
    LET fromEnv == env.kind = "creds"
        ev0 == IF env.kind = "unset" THEN <<>> ELSE <<Step("token_env.load", fromEnv)>>
        readsFile == ~fromEnv /\ file.kind # "absent"
        ev1 == IF readsFile THEN ev0 \o <<Step("token_file.read", file.kind = "creds")>>
               ELSE ev0
        loaded == IF fromEnv THEN [some |-> TRUE, creds |-> env.creds]
                  ELSE IF file.kind = "creds" THEN [some |-> TRUE, creds |-> file.creds]
                  ELSE [some |-> FALSE]
        none(ev) == [exc |-> "", service |-> NoService, token_file |-> file, events |-> ev]
        built(c, f2, ev) ==
            [exc |-> "", token_file |-> f2, events |-> ev \o <<Step("build", o.build)>>,
             service |-> IF o.build THEN [ok |-> TRUE, credentials |-> c] ELSE NoService]
        saved(c, ev) == built(c, SaveToken(file, c, o),
                              ev \o <<Step("token_file.write", o.save = "ok")>>)
        consent(ev) ==
            IF ~secret THEN none(ev)
            ELSE saved(FreshCreds, ev \o <<Step("flow.run_local_server", TRUE)>>)
    IN  IF readsFile /\ file.kind = "garbage"
        THEN [exc |-> "Exception", service |-> NoService, token_file |-> file, events |-> ev1]
        ELSE IF loaded.some /\ Valid(loaded.creds)
        THEN built(loaded.creds, file, ev1)
        ELSE IF loaded.some /\ loaded.creds.expired /\ loaded.creds.refresh_token
        THEN LET ev2 == ev1 \o <<Step("creds.refresh", o.acquire)>>
             IN  IF o.acquire THEN saved(Refreshed(loaded.creds), ev2) ELSE consent(ev2)
        ELSE IF ~secret
        THEN none(ev1)
        ELSE LET ev2 == ev1 \o <<Step("flow.run_local_server", o.acquire)>>
             IN  IF o.acquire THEN saved(FreshCreds, ev2) ELSE none(ev2)

\* Mutant: a credential in the token file is preferred to the environment's.
provider_file_first(env, file, secret, o) ==
    LET fromEnv == env.kind = "creds" /\ file.kind # "creds"
        ev0 == IF env.kind = "unset" THEN <<>> ELSE <<Step("token_env.load", fromEnv)>>
        readsFile == ~fromEnv /\ file.kind # "absent"
        ev1 == IF readsFile THEN ev0 \o <<Step("token_file.read", file.kind = "creds")>>
               ELSE ev0
        loaded == IF fromEnv THEN [some |-> TRUE, creds |-> env.creds]
                  ELSE IF file.kind = "creds" THEN [some |-> TRUE, creds |-> file.creds]
                  ELSE [some |-> FALSE]
        none(ev) == [exc |-> "", service |-> NoService, token_file |-> file, events |-> ev]
        built(c, f2, ev) ==
            [exc |-> "", token_file |-> f2, events |-> ev \o <<Step("build", o.build)>>,
             service |-> IF o.build THEN [ok |-> TRUE, credentials |-> c] ELSE NoService]
        saved(c, ev) == built(c, SaveToken(file, c, o),
                              ev \o <<Step("token_file.write", o.save = "ok")>>)
    IN  IF readsFile /\ file.kind = "garbage"
        THEN [exc |-> "Exception", service |-> NoService, token_file |-> file, events |-> ev1]
        ELSE IF loaded.some /\ Valid(loaded.creds)
        THEN built(loaded.creds, file, ev1)
        ELSE IF loaded.some /\ loaded.creds.expired /\ loaded.creds.refresh_token
        THEN LET ev2 == ev1 \o <<Step("creds.refresh", o.acquire)>>
             IN  IF o.acquire THEN saved(Refreshed(loaded.creds), ev2) ELSE none(ev2)
        ELSE IF ~secret
        THEN none(ev1)
        ELSE LET ev2 == ev1 \o <<Step("flow.run_local_server", o.acquire)>>
             IN  IF o.acquire THEN saved(FreshCreds, ev2) ELSE none(ev2)

\* get_google_tasks_service(): [exc, service, token_file, events].
\* exc is "" or the class of the exception that leaves the function;
\* service is NoService where the function returns None.
get_google_tasks_service(env, file, secret, o) ==
    LET fromEnv == env.kind = "creds"
        ev0 == IF env.kind = "unset" THEN <<>> ELSE <<Step("token_env.load", fromEnv)>>
        readsFile == ~fromEnv /\ file.kind # "absent"
        ev1 == IF readsFile THEN ev0 \o <<Step("token_file.read", file.kind = "creds")>>
               ELSE ev0
        loaded == IF fromEnv THEN [some |-> TRUE, creds |-> env.creds]
                  ELSE IF file.kind = "creds" THEN [some |-> TRUE, creds |-> file.creds]
                  ELSE [some |-> FALSE]
        none(ev) == [exc |-> "", service |-> NoService, token_file |-> file, events |-> ev]
        built(c, f2, ev) ==
            [exc |-> "", token_file |-> f2, events |-> ev \o <<Step("build", o.build)>>,
             service |-> IF o.build THEN [ok |-> TRUE, credentials |-> c] ELSE NoService]
        saved(c, ev) == built(c, SaveToken(file, c, o),
                              ev \o <<Step("token_file.write", o.save = "ok")>>)
    IN  IF readsFile /\ file.kind = "garbage"
        THEN [exc |-> "Exception", service |-> NoService, token_file |-> file, events |-> ev1]
        ELSE IF loaded.some /\ Valid(loaded.creds)
        THEN built(loaded.creds, file, ev1)
        ELSE IF loaded.some /\ loaded.creds.expired /\ loaded.creds.refresh_token
        THEN LET ev2 == ev1 \o <<Step("creds.refresh", o.acquire)>>
             IN  IF o.acquire THEN saved(Refreshed(loaded.creds), ev2) ELSE none(ev2)
        ELSE IF ~secret
        THEN none(ev1)
        ELSE LET ev2 == ev1 \o <<Step("flow.run_local_server", o.acquire)>>
             IN  IF o.acquire THEN saved(FreshCreds, ev2) ELSE none(ev2)

\* The outcomes that differ in what the provider does: a step that is not
\* taken has no outcome to choose.
RelevantOutcomes(env, file, secret) ==
    {o \in ProviderOutcomes :
        LET ops == {e.op : e \in Range(get_google_tasks_service(env, file, secret, o).events)}
            tried == {"creds.refresh", "flow.run_local_server"} \cap ops # {}
        IN  /\ (~o.acquire => tried)
            /\ (o.save # "ok" => "token_file.write" \in ops)
            /\ (~o.build => "build" \in ops)}

\* ------------------------------------------------------------- remote API
\* W is what an invocation reads and writes: [tasklists, tasks, token_file, log].
\* A remote call ends [exc |-> "", value, W] or [exc |-> <class>, W], and is
\* logged with its keyword arguments and how it ended.
\* f is the fault of the invocation: the remote operation that fails for a
\* reason outside the request (transport, quota, server error) and the class
\* of the exception raised, or NoFault.
NoFault == [op |-> "none", exc |-> ""]
ExcClasses == {"HttpError", "Exception"}

TaskOps == {"tasks.list", "tasks.get", "tasks.insert", "tasks.patch", "tasks.move",
            "tasks.delete"}
RemoteOps == {"tasklists.list", "tasklists.insert"} \cup TaskOps

Called(W, op, kwargs, exc) ==
    [W EXCEPT !.log = Append(@, [op |-> op, kwargs |-> kwargs, exc |-> exc])]
Ok(W, op, kwargs, v) == [exc |-> "", value |-> v, W |-> Called(W, op, kwargs, "")]
Raise(W, op, kwargs, exc) == [exc |-> exc, W |-> Called(W, op, kwargs, exc)]

Held(tk, l, t) == t \in DOMAIN tk /\ tk[t].present /\ tk[t].tasklist = l
ListHeld(tls, l) == \E i \in 1..Len(tls) : tls[i].id = l

RECURSIVE TasksFrom(_, _, _)
TasksFrom(tk, l, i) ==
    IF i > Len(TaskName) THEN <<>>
    ELSE (IF Held(tk, l, TaskName[i]) THEN <<tk[TaskName[i]].resource>> ELSE <<>>)
         \o TasksFrom(tk, l, i + 1)

Prefix(s, n) == SubSeq(s, 1, IF n < Len(s) THEN n ELSE Len(s))
Without(d, k) == [x \in (DOMAIN d) \ {k} |-> d[x]]

\* service.tasklists().list().execute()
tasklists_list(W, f) ==
    LET op == "tasklists.list"
    IN  IF f.op = op THEN Raise(W, op, <<>>, f.exc)
        ELSE Ok(W, op, <<>>, IF W.tasklists = <<>> THEN <<>> ELSE [items |-> W.tasklists])

\* service.tasklists().insert(body=...).execute()
tasklists_insert(W, f, kwargs) ==
    LET op == "tasklists.insert"
        free == {i \in 1..MaxLists : ~ListHeld(W.tasklists, ListName[i])}
    IN  IF f.op = op THEN Raise(W, op, kwargs, f.exc)
        ELSE IF free = {} THEN Raise(W, op, kwargs, "HttpError")
        ELSE LET i == CHOOSE i \in free : \A j \in free : i <= j
                 created == Merge(kwargs.body, [id |-> ListName[i]])
             IN  Ok([W EXCEPT !.tasklists = Append(@, created)], op, kwargs, created)

\* service.tasks().list(**params).execute()
tasks_list(W, f, kwargs) ==
    LET op == "tasks.list"
        shown(t) == kwargs.showCompleted \/ t["status"] # "completed"
        items == Prefix(SelectSeq(TasksFrom(W.tasks, kwargs.tasklist, 1), shown),
                        kwargs.maxResults)
    IN  IF f.op = op THEN Raise(W, op, kwargs, f.exc)
        ELSE IF ~ListHeld(W.tasklists, kwargs.tasklist) THEN Raise(W, op, kwargs, "HttpError")
        ELSE Ok(W, op, kwargs, IF items = <<>> THEN <<>> ELSE [items |-> items])

\* service.tasks().get(tasklist=..., task=...).execute()
tasks_get(W, f, kwargs) ==
    LET op == "tasks.get"
    IN  IF f.op = op THEN Raise(W, op, kwargs, f.exc)
        ELSE IF ~Held(W.tasks, kwargs.tasklist, kwargs.task)
        THEN Raise(W, op, kwargs, "HttpError")
        ELSE Ok(W, op, kwargs, W.tasks[kwargs.task].resource)

\* A parent / previous reference the remote accepts for task t of list l.
RefOk(W, l, t, kwargs, k) ==
    k \in DOMAIN kwargs => (kwargs[k] # t /\ Held(W.tasks, l, kwargs[k]))

\* The task resource once placed under kwargs' parent, after kwargs' previous.
Placed(res, kwargs) ==
    LET base == [Without(res, "parent") EXCEPT
                    !["position"] = Get(kwargs, "previous", NoneId)]
    IN  IF "parent" \in DOMAIN kwargs THEN Merge(base, [parent |-> kwargs.parent]) ELSE base

\* service.tasks().insert(**insert_kwargs).execute()
tasks_insert(W, f, kwargs) ==
    LET op == "tasks.insert"
        free == {i \in 1..Len(TaskName) : ~W.tasks[TaskName[i]].present}
    IN  IF f.op = op THEN Raise(W, op, kwargs, f.exc)
        ELSE IF ~ListHeld(W.tasklists, kwargs.tasklist) \/ free = {}
        THEN Raise(W, op, kwargs, "HttpError")
        ELSE LET i == CHOOSE i \in free : \A j \in free : i <= j
                 t == TaskName[i]
                 created == Placed(Merge([id |-> t, status |-> "needsAction",
                                          position |-> NoneId], kwargs.body), kwargs)
             IN  IF ~RefOk(W, kwargs.tasklist, t, kwargs, "parent")
                    \/ ~RefOk(W, kwargs.tasklist, t, kwargs, "previous")
                 THEN Raise(W, op, kwargs, "HttpError")
                 ELSE Ok([W EXCEPT !.tasks[t] = [present |-> TRUE,
                                                 tasklist |-> kwargs.tasklist,
                                                 resource |-> created]],
                         op, kwargs, created)

\* service.tasks().patch(tasklist=..., task=..., body=...).execute()
tasks_patch(W, f, kwargs) ==
    LET op == "tasks.patch"
    IN  IF f.op = op THEN Raise(W, op, kwargs, f.exc)
        ELSE IF ~Held(W.tasks, kwargs.tasklist, kwargs.task)
        THEN Raise(W, op, kwargs, "HttpError")
        ELSE LET updated == Merge(W.tasks[kwargs.task].resource, kwargs.body)
             IN  Ok([W EXCEPT !.tasks[kwargs.task].resource = updated], op, kwargs, updated)

\* service.tasks().move(**move_kwargs).execute()
tasks_move(W, f, kwargs) ==
    LET op == "tasks.move"
    IN  IF f.op = op THEN Raise(W, op, kwargs, f.exc)
        ELSE IF ~Held(W.tasks, kwargs.tasklist, kwargs.task)
        THEN Raise(W, op, kwargs, "HttpError")
        ELSE IF ~RefOk(W, kwargs.tasklist, kwargs.task, kwargs, "parent")
                \/ ~RefOk(W, kwargs.tasklist, kwargs.task, kwargs, "previous")
        THEN Raise(W, op, kwargs, "HttpError")
        ELSE LET moved == Placed(W.tasks[kwargs.task].resource, kwargs)
             IN  Ok([W EXCEPT !.tasks[kwargs.task].resource = moved], op, kwargs, moved)

\* service.tasks().delete(tasklist=..., task=...).execute(): the task and its
\* subtasks go; the response body is empty.
tasks_delete(W, f, kwargs) ==
    LET op == "tasks.delete"
        gone(t) == t = kwargs.task
                   \/ (W.tasks[t].present
                       /\ Get(W.tasks[t].resource, "parent", NoneId) = kwargs.task)
    IN  IF f.op = op THEN Raise(W, op, kwargs, f.exc)
        ELSE IF ~Held(W.tasks, kwargs.tasklist, kwargs.task)
        THEN Raise(W, op, kwargs, "HttpError")
        ELSE Ok([W EXCEPT !.tasks = [t \in DOMAIN @ |-> IF gone(t) THEN NoTask ELSE @[t]]],
                op, kwargs, <<>>)

\* ------------------------------------------------------------- list resolver
\* An error message: the f-string's template and the values put into it.
Msg(fmt) == [fmt |-> fmt, with |-> <<>>]
MsgWith(fmt, xs) == [fmt |-> fmt, with |-> xs]

\* What _resolve_tasklist_id returns, noted in the invocation's log.
Value(W, v) ==
    [exc |-> "", value |-> v,
     W |-> [W EXCEPT !.log = Append(@, [op |-> "_resolve_tasklist_id", exc |-> "",
                                        value |-> v])]]

\* [tl['id'] for tl in tasklists.get('items', [])]
AvailableLists(listing) ==
    LET items == Get(listing, "items", <<>>) IN [i \in 1..Len(items) |-> items[i].id]

\* Mutant: an explicit id is returned without looking it up in the enumeration.
resolve_unvalidated(W, f, tasklist_id) ==
    LET pick(V, available_lists) ==
            IF tasklist_id = DEFAULT /\ available_lists = <<>>
            THEN Value(V, [error |-> Msg("No task lists found."), available_lists |-> <<>>])
            ELSE Value(V, [tasklist_id |-> IF tasklist_id = DEFAULT
                                           THEN available_lists[1] ELSE tasklist_id,
                           available_lists |-> available_lists])
        listed(r) == IF r.exc # "" THEN r ELSE pick(r.W, AvailableLists(r.value))
    IN  listed(tasklists_list(W, f))

\* Mutant: the alias resolves to the last enumerated list.
resolve_default_last(W, f, tasklist_id) ==
    LET pick(V, available_lists) ==
            IF tasklist_id = DEFAULT
            THEN IF available_lists = <<>>
                 THEN Value(V, [error |-> Msg("No task lists found."),
                                available_lists |-> <<>>])
                 ELSE Value(V, [tasklist_id |-> available_lists[Len(available_lists)],
                                available_lists |-> available_lists])
            ELSE IF tasklist_id \notin Range(available_lists)
            THEN Value(V, [error |-> MsgWith("Task list '{tasklist_id}' not found.",
                                             <<tasklist_id>>),
                           available_lists |-> available_lists])
            ELSE Value(V, [tasklist_id |-> tasklist_id, available_lists |-> available_lists])
        listed(r) == IF r.exc # "" THEN r ELSE pick(r.W, AvailableLists(r.value))
    IN  listed(tasklists_list(W, f))

\* Mutant: the not-found error carries no available set.
resolve_not_found_bare(W, f, tasklist_id) ==
    LET pick(V, available_lists) ==
            IF tasklist_id = DEFAULT
            THEN IF available_lists = <<>>
                 THEN Value(V, [error |-> Msg("No task lists found."),
                                available_lists |-> <<>>])
                 ELSE Value(V, [tasklist_id |-> available_lists[1],
                                available_lists |-> available_lists])
            ELSE IF tasklist_id \notin Range(available_lists)
            THEN Value(V, [error |-> MsgWith("Task list '{tasklist_id}' not found.",
                                             <<tasklist_id>>),
                           available_lists |-> <<>>])
            ELSE Value(V, [tasklist_id |-> tasklist_id, available_lists |-> available_lists])
        listed(r) == IF r.exc # "" THEN r ELSE pick(r.W, AvailableLists(r.value))
    IN  listed(tasklists_list(W, f))

\* Mutant: the alias on an account without lists is reported as not found.
resolve_alias_not_found(W, f, tasklist_id) ==
    LET pick(V, available_lists) ==
            IF tasklist_id # DEFAULT /\ tasklist_id \in Range(available_lists)
            THEN Value(V, [tasklist_id |-> tasklist_id, available_lists |-> available_lists])
            ELSE IF tasklist_id = DEFAULT /\ available_lists # <<>>
            THEN Value(V, [tasklist_id |-> available_lists[1],
                           available_lists |-> available_lists])
            ELSE Value(V, [error |-> MsgWith("Task list '{tasklist_id}' not found.",
                                             <<tasklist_id>>),
                           available_lists |-> available_lists])
        listed(r) == IF r.exc # "" THEN r ELSE pick(r.W, AvailableLists(r.value))
    IN  listed(tasklists_list(W, f))

\* _resolve_tasklist_id(service, tasklist_id).  listed(r) is the function
\* from the enumeration's return on; pick, from available_lists on.
_resolve_tasklist_id(W, f, tasklist_id) ==
    LET pick(V, available_lists) ==
            IF tasklist_id = DEFAULT
            THEN IF available_lists = <<>>
                 THEN Value(V, [error |-> Msg("No task lists found."),
                                available_lists |-> <<>>])
                 ELSE Value(V, [tasklist_id |-> available_lists[1],
                                available_lists |-> available_lists])
            ELSE IF tasklist_id \notin Range(available_lists)
            THEN Value(V, [error |-> MsgWith("Task list '{tasklist_id}' not found.",
                                             <<tasklist_id>>),
                           available_lists |-> available_lists])
            ELSE Value(V, [tasklist_id |-> tasklist_id, available_lists |-> available_lists])
        listed(r) == IF r.exc # "" THEN r ELSE pick(r.W, AvailableLists(r.value))
    IN  listed(tasklists_list(W, f))

\* ------------------------------------------------------------- handlers
\* S is the state a handler starts from: [token_env, token_file,
\* credentials_file, tasklists, tasks]; a its arguments; o what the provider
\* meets; f the remote fault.  A try body ends Return or Raised; the except
\* clauses (Catch) turn Raised into a returned envelope.  A handler is
\* written as its statements in order, each a local operator over what the
\* statement before it produced.
Return(W, v) == [kind |-> "return", value |-> v, W |-> W]
Raised(W, exc, ctx) == [kind |-> "raise", exc |-> exc, ctx |-> ctx, W |-> W]

\* Mutant: the handler goes on with whatever the provider returned.
AcquireUnchecked(S, o) ==
    LET got(g) ==
            [exc |-> g.exc, service |-> [ok |-> TRUE],
             W |-> [tasklists |-> S.tasklists, tasks |-> S.tasks,
                    token_file |-> g.token_file,
                    log |-> g.events \o <<[op |-> "get_google_tasks_service",
                                           exc |-> g.exc, service |-> g.service.ok]>>]]
    IN  got(get_google_tasks_service(S.token_env, S.token_file, S.credentials_file, o))

\* service = get_google_tasks_service(), as the first statement of a try body
Acquire(S, o) ==
    LET got(g) ==
            [exc |-> g.exc, service |-> g.service,
             W |-> [tasklists |-> S.tasklists, tasks |-> S.tasks,
                    token_file |-> g.token_file,
                    log |-> g.events \o <<[op |-> "get_google_tasks_service",
                                           exc |-> g.exc, service |-> g.service.ok]>>]]
    IN  got(get_google_tasks_service(S.token_env, S.token_file, S.credentials_file, o))

\* except HttpError as e: ... / except Exception as e: ...
\* onHttp and onExc are what the two clauses return.
Catch(r, onHttp, onExc) ==
    IF r.kind # "raise" THEN r
    ELSE IF r.exc = "HttpError" THEN Return(r.W, onHttp)
    ELSE Return(r.W, onExc)

\* The except clauses shared by every handler but get_tasks and list_tasklists.
ApiError(r) == [error |-> MsgWith("Google Tasks API error: {str(e)}", <<r.exc>>)]
OtherError(r) == [error |-> MsgWith("{str(e)}", <<r.exc>>)]
Except(r) == Catch(r, ApiError(r), OtherError(r))

\* The fixed task projection of get_tasks.
FormatTask(task) ==
    [id |-> Get(task, "id", NoneId),
     title |-> Get(task, "title", <<>>),
     status |-> Get(task, "status", "needsAction"),
     notes |-> Get(task, "notes", <<>>),
     due |-> Get(task, "due", NoneStr),
     updated |-> Get(task, "updated", NoneStr),
     position |-> Get(task, "position", NoneId),
     parent |-> Get(task, "parent", NoneId),
     links |-> Get(task, "links", <<>>)]

get_tasks_try(S, a, o, f) ==
    LET formatted(V, tasklist_id, available_lists, formatted_tasks) ==
            Return(V, [tasklist_id |-> tasklist_id,
                       max_results |-> a.max_results,
                       show_completed |-> a.show_completed,
                       show_deleted |-> a.show_deleted,
                       total_tasks |-> Len(formatted_tasks),
                       tasks |-> formatted_tasks,
                       available_lists |-> available_lists])
        project(found) == [i \in 1..Len(found) |-> FormatTask(found[i])]
        queried(q, tasklist_id, available_lists) ==
            IF q.exc # "" THEN Raised(q.W, q.exc, tasklist_id)
            ELSE formatted(q.W, tasklist_id, available_lists,
                           project(Get(q.value, "items", <<>>)))
        query(V, tasklist_id, available_lists) ==
            queried(tasks_list(V, f,
                        [tasklist |-> tasklist_id,
                         maxResults |-> a.max_results,
                         showCompleted |-> IF ~a.show_completed THEN FALSE ELSE TRUE,
                         showDeleted |-> IF ~a.show_deleted THEN FALSE ELSE TRUE]),
                    tasklist_id, available_lists)
        resolve(V, available_lists) ==
            IF a.tasklist_id = DEFAULT /\ available_lists = <<>>
            THEN Return(V, [error |-> Msg("No task lists found in your Google Tasks account."),
                            tasklist_id |-> a.tasklist_id, tasks |-> <<>>])
            ELSE IF a.tasklist_id # DEFAULT /\ a.tasklist_id \notin Range(available_lists)
            THEN Return(V, [error |-> MsgWith("Task list '{tasklist_id}' not found. Available lists: {available_lists}",
                                              <<a.tasklist_id>> \o available_lists),
                            tasklist_id |-> a.tasklist_id,
                            available_lists |-> available_lists,
                            tasks |-> <<>>])
            ELSE query(V, IF a.tasklist_id = DEFAULT THEN available_lists[1]
                          ELSE a.tasklist_id,
                       available_lists)
        listed(r) == IF r.exc # "" THEN Raised(r.W, r.exc, a.tasklist_id)
                     ELSE resolve(r.W, AvailableLists(r.value))
        acquired(g) ==
            IF g.exc # "" THEN Raised(g.W, g.exc, a.tasklist_id)
            ELSE IF ~g.service.ok
            THEN Return(g.W, [error |-> Msg("Failed to authenticate with Google Tasks API. Please check your credentials."),
                              tasklist_id |-> a.tasklist_id, tasks |-> <<>>])
            ELSE listed(tasklists_list(g.W, f))
    IN  acquired(Acquire(S, o))

\* Mutant: only the first item of the remote response is projected.
get_tasks_first_only(S, a, o, f) ==
    LET http(r) == [error |-> MsgWith("Google Tasks API error: {str(e)}", <<r.exc>>),
                    tasklist_id |-> r.ctx, tasks |-> <<>>]
        other(r) == [error |-> MsgWith("Error retrieving tasks: {str(e)}", <<r.exc>>),
                     tasklist_id |-> r.ctx, tasks |-> <<>>]
        except(r) == Catch(r, http(r), other(r))
        cut(r) == IF r.kind = "return" /\ "total_tasks" \in DOMAIN r.value
                  THEN [r EXCEPT !.value.tasks = Prefix(@, 1),
                                 !.value.total_tasks = Len(Prefix(r.value.tasks, 1))]
                  ELSE r
    IN  cut(except(get_tasks_try(S, a, o, f)))

get_tasks(S, a, o, f) ==
    LET http(r) == [error |-> MsgWith("Google Tasks API error: {str(e)}", <<r.exc>>),
                    tasklist_id |-> r.ctx, tasks |-> <<>>]
        other(r) == [error |-> MsgWith("Error retrieving tasks: {str(e)}", <<r.exc>>),
                     tasklist_id |-> r.ctx, tasks |-> <<>>]
        except(r) == Catch(r, http(r), other(r))
    IN  except(get_tasks_try(S, a, o, f))

list_tasklists_try(S, a, o, f) ==
    LET formatted(V, formatted_lists) ==
            Return(V, [total_lists |-> Len(formatted_lists), tasklists |-> formatted_lists])
        project(found) ==
            [i \in 1..Len(found) |->
                [id |-> Get(found[i], "id", NoneId),
                 title |-> Get(found[i], "title", <<>>),
                 updated |-> Get(found[i], "updated", NoneStr),
                 self_link |-> Get(found[i], "selfLink", NoneStr)]]
        listed(r) == IF r.exc # "" THEN Raised(r.W, r.exc, <<>>)
                     ELSE formatted(r.W, project(Get(r.value, "items", <<>>)))
        acquired(g) ==
            IF g.exc # "" THEN Raised(g.W, g.exc, <<>>)
            ELSE IF ~g.service.ok
            THEN Return(g.W, [error |-> Msg("Failed to authenticate with Google Tasks API. Please check your credentials."),
                              tasklists |-> <<>>])
            ELSE listed(tasklists_list(g.W, f))
    IN  acquired(Acquire(S, o))

list_tasklists(S, a, o, f) ==
    LET http(r) == [error |-> MsgWith("Google Tasks API error: {str(e)}", <<r.exc>>),
                    tasklists |-> <<>>]
        other(r) == [error |-> MsgWith("Error retrieving task lists: {str(e)}", <<r.exc>>),
                     tasklists |-> <<>>]
        except(r) == Catch(r, http(r), other(r))
    IN  except(list_tasklists_try(S, a, o, f))

\* Mutant: the list is resolved a second time before the handler goes on.
ResolvedTwice(S, a, o, f) ==
    LET resolved(r) ==
            IF r.exc # "" THEN [done |-> TRUE, end |-> Raised(r.W, r.exc, <<>>)]
            ELSE IF "error" \in DOMAIN r.value
            THEN [done |-> TRUE,
                  end |-> Return(r.W, Merge([error |-> r.value.error], r.value))]
            ELSE [done |-> FALSE, tasklist_id |-> r.value.tasklist_id, W |-> r.W]
        again(p) == IF p.done THEN p
                    ELSE resolved(_resolve_tasklist_id(p.W, f, a.tasklist_id))
        acquired(g) ==
            IF g.exc # "" THEN [done |-> TRUE, end |-> Raised(g.W, g.exc, <<>>)]
            ELSE IF ~g.service.ok
            THEN [done |-> TRUE, end |-> Return(g.W, [error |-> Msg("Auth failed")])]
            ELSE again(resolved(_resolve_tasklist_id(g.W, f, a.tasklist_id)))
    IN  acquired(Acquire(S, o))

\* The statements every other task-level handler starts with: the service,
\* then the resolver.  [done |-> TRUE, end] when the handler ends there,
\* [done |-> FALSE, tasklist_id, W] when it goes on.
Resolved(S, a, o, f) ==
    LET resolved(r) ==
            IF r.exc # "" THEN [done |-> TRUE, end |-> Raised(r.W, r.exc, <<>>)]
            ELSE IF "error" \in DOMAIN r.value
            THEN [done |-> TRUE,
                  end |-> Return(r.W, Merge([error |-> r.value.error], r.value))]
            ELSE [done |-> FALSE, tasklist_id |-> r.value.tasklist_id, W |-> r.W]
        acquired(g) ==
            IF g.exc # "" THEN [done |-> TRUE, end |-> Raised(g.W, g.exc, <<>>)]
            ELSE IF ~g.service.ok
            THEN [done |-> TRUE, end |-> Return(g.W, [error |-> Msg("Auth failed")])]
            ELSE resolved(_resolve_tasklist_id(g.W, f, a.tasklist_id))
    IN  acquired(Acquire(S, o))

\* Mutant: the entry is set whatever the argument.
OptAlways(k, v, none) == [x \in {k} |-> v]

\* A keyword or body entry that is set only when the argument is not None.
Opt(k, v, none) == IF v = none THEN <<>> ELSE [x \in {k} |-> v]

create_task_try(S, a, o, f) ==
    LET created(p, c) ==
            IF c.exc # "" THEN Raised(c.W, c.exc, <<>>)
            ELSE Return(c.W, [tasklist_id |-> p.tasklist_id, task |-> c.value])
        insert(p, body) ==
            created(p, tasks_insert(p.W, f,
                           Merge(Merge([tasklist |-> p.tasklist_id, body |-> body],
                                       Opt("parent", a.parent, NoneId)),
                                 Opt("previous", a.position, NoneId))))
        formatted(p, fd) ==
            IF ~fd.ok
            THEN Return(p.W, [error |-> Msg("Invalid date format. Please use YYYY-MM-DD format (e.g., '2024-12-31'). Error: {str(e)}")])
            ELSE insert(p, Merge([title |-> a.title, due |-> fd.due],
                                 Opt("notes", a.notes, NoneStr)))
        resolved(p) == IF p.done THEN p.end ELSE formatted(p, FormatDue(a.due))
    IN  resolved(Resolved(S, a, o, f))

create_task(S, a, o, f) == Except(create_task_try(S, a, o, f))

\* Mutant: the patch is sent whether or not the fetch succeeded.
update_task_fetch_ignored(S, a, o, f) ==
    LET moved(p, m) ==
            IF m.exc # "" THEN Raised(m.W, m.exc, <<>>)
            ELSE Return(m.W, [tasklist_id |-> p.tasklist_id, task |-> m.value])
        patched(p, u) ==
            IF u.exc # "" THEN Raised(u.W, u.exc, <<>>)
            ELSE IF a.parent # NoneId \/ a.position # NoneId
            THEN moved(p, tasks_move(u.W, f,
                              Merge(Merge([tasklist |-> p.tasklist_id, task |-> a.task_id],
                                          Opt("parent", a.parent, NoneId)),
                                    Opt("previous", a.position, NoneId))))
            ELSE Return(u.W, [tasklist_id |-> p.tasklist_id, task |-> u.value])
        body == Merge(Merge(Merge(Opt("title", a.title, NoneStr),
                                  Opt("notes", a.notes, NoneStr)),
                            Opt("due", a.due, NoneStr)),
                      Opt("status", a.status, NoneId))
        fetched(p, current) ==
            patched(p, tasks_patch(current.W, f,
                           [tasklist |-> p.tasklist_id, task |-> a.task_id, body |-> body]))
        resolved(p) ==
            IF p.done THEN p.end
            ELSE fetched(p, tasks_get(p.W, f, [tasklist |-> p.tasklist_id,
                                               task |-> a.task_id]))
    IN  resolved(Resolved(S, a, o, f))

update_task_try(S, a, o, f) ==
    LET moved(p, m) ==
            IF m.exc # "" THEN Raised(m.W, m.exc, <<>>)
            ELSE Return(m.W, [tasklist_id |-> p.tasklist_id, task |-> m.value])
        patched(p, u) ==
            IF u.exc # "" THEN Raised(u.W, u.exc, <<>>)
            ELSE IF a.parent # NoneId \/ a.position # NoneId
            THEN moved(p, tasks_move(u.W, f,
                              Merge(Merge([tasklist |-> p.tasklist_id, task |-> a.task_id],
                                          Opt("parent", a.parent, NoneId)),
                                    Opt("previous", a.position, NoneId))))
            ELSE Return(u.W, [tasklist_id |-> p.tasklist_id, task |-> u.value])
        body == Merge(Merge(Merge(Opt("title", a.title, NoneStr),
                                  Opt("notes", a.notes, NoneStr)),
                            Opt("due", a.due, NoneStr)),
                      Opt("status", a.status, NoneId))
        fetched(p, current) ==
            IF current.exc # "" THEN Raised(current.W, current.exc, <<>>)
            ELSE patched(p, tasks_patch(current.W, f,
                                [tasklist |-> p.tasklist_id, task |-> a.task_id,
                                 body |-> body]))
        resolved(p) ==
            IF p.done THEN p.end
            ELSE fetched(p, tasks_get(p.W, f, [tasklist |-> p.tasklist_id,
                                               task |-> a.task_id]))
    IN  resolved(Resolved(S, a, o, f))

\* Mutant: a failed move is masked by answering with the task as it now is.
update_task_masking(S, a, o, f) ==
    LET masked(r, last) ==
            IF r.kind = "raise" /\ last.op = "tasks.move"
            THEN Return(r.W, [tasklist_id |-> last.kwargs.tasklist,
                              task |-> r.W.tasks[a.task_id].resource])
            ELSE Except(r)
        tried(r) == masked(r, r.W.log[Len(r.W.log)])
    IN  tried(update_task_try(S, a, o, f))

update_task(S, a, o, f) == Except(update_task_try(S, a, o, f))

complete_task_try(S, a, o, f) ==
    LET patched(p, u) ==
            IF u.exc # "" THEN Raised(u.W, u.exc, <<>>)
            ELSE Return(u.W, [tasklist_id |-> p.tasklist_id, task |-> u.value])
        status == IF a.completed THEN "completed" ELSE "needsAction"
        resolved(p) ==
            IF p.done THEN p.end
            ELSE patched(p, tasks_patch(p.W, f, [tasklist |-> p.tasklist_id,
                                                 task |-> a.task_id,
                                                 body |-> [status |-> status]]))
    IN  resolved(Resolved(S, a, o, f))

\* Mutant: the status sent does not depend on completed.
complete_task_always_completed(S, a, o, f) ==
    LET patched(p, u) ==
            IF u.exc # "" THEN Raised(u.W, u.exc, <<>>)
            ELSE Return(u.W, [tasklist_id |-> p.tasklist_id, task |-> u.value])
        resolved(p) ==
            IF p.done THEN p.end
            ELSE patched(p, tasks_patch(p.W, f, [tasklist |-> p.tasklist_id,
                                                 task |-> a.task_id,
                                                 body |-> [status |-> "completed"]]))
    IN  Except(resolved(Resolved(S, a, o, f)))

complete_task(S, a, o, f) == Except(complete_task_try(S, a, o, f))

delete_task_try(S, a, o, f) ==
    LET deleted(p, d) ==
            IF d.exc # "" THEN Raised(d.W, d.exc, <<>>)
            ELSE Return(d.W, [tasklist_id |-> p.tasklist_id, deleted |-> TRUE,
                              task_id |-> a.task_id])
        resolved(p) ==
            IF p.done THEN p.end
            ELSE deleted(p, tasks_delete(p.W, f, [tasklist |-> p.tasklist_id,
                                                  task |-> a.task_id]))
    IN  resolved(Resolved(S, a, o, f))

\* Mutant: the response is built from the remote's (empty) response body.
delete_task_from_body(S, a, o, f) ==
    LET deleted(p, d) ==
            IF d.exc # "" THEN Raised(d.W, d.exc, <<>>)
            ELSE Return(d.W, Merge([tasklist_id |-> p.tasklist_id, deleted |-> TRUE],
                                   d.value))
        resolved(p) ==
            IF p.done THEN p.end
            ELSE deleted(p, tasks_delete(p.W, f, [tasklist |-> p.tasklist_id,
                                                  task |-> a.task_id]))
    IN  Except(resolved(Resolved(S, a, o, f)))

delete_task(S, a, o, f) == Except(delete_task_try(S, a, o, f))

create_tasklist_try(S, a, o, f) ==
    LET created(c) ==
            IF c.exc # "" THEN Raised(c.W, c.exc, <<>>)
            ELSE Return(c.W, [tasklist |-> c.value])
        acquired(g) ==
            IF g.exc # "" THEN Raised(g.W, g.exc, <<>>)
            ELSE IF ~g.service.ok THEN Return(g.W, [error |-> Msg("Auth failed")])
            ELSE created(tasklists_insert(g.W, f, [body |-> [title |-> a.title]]))
    IN  acquired(Acquire(S, o))

create_tasklist(S, a, o, f) == Except(create_tasklist_try(S, a, o, f))

get_task_try(S, a, o, f) ==
    LET fetched(p, t) ==
            IF t.exc # "" THEN Raised(t.W, t.exc, <<>>)
            ELSE Return(t.W, [tasklist_id |-> p.tasklist_id, task |-> t.value])
        resolved(p) ==
            IF p.done THEN p.end
            ELSE fetched(p, tasks_get(p.W, f, [tasklist |-> p.tasklist_id,
                                               task |-> a.task_id]))
    IN  resolved(Resolved(S, a, o, f))

\* Mutant: the handler body without its except clauses.
get_task_uncaught(S, a, o, f) == get_task_try(S, a, o, f)

get_task(S, a, o, f) == Except(get_task_try(S, a, o, f))

\* str.lower(), "in" and the order of str (Unicode 14).
\* c.lower() for one character, as a text: <<from, to, step, shift>> are the
\* runs of characters that have a lower-case form, U+0130 has one of two
\* characters.
LowerChar(c) ==
    LET runs == {<<65, 90, 1, 32>>, <<192, 214, 1, 32>>, <<216, 222, 1, 32>>,
              <<256, 302, 2, 1>>, <<306, 310, 2, 1>>, <<313, 327, 2, 1>>, <<330, 374, 2, 1>>,
              <<376, 376, 1, -121>>, <<377, 381, 2, 1>>, <<385, 385, 1, 210>>,
              <<386, 388, 2, 1>>, <<390, 390, 1, 206>>, <<391, 391, 1, 1>>,
              <<393, 394, 1, 205>>, <<395, 395, 1, 1>>, <<398, 398, 1, 79>>,
              <<399, 399, 1, 202>>, <<400, 400, 1, 203>>, <<401, 401, 1, 1>>,
              <<403, 403, 1, 205>>, <<404, 404, 1, 207>>, <<406, 406, 1, 211>>,
              <<407, 407, 1, 209>>, <<408, 408, 1, 1>>, <<412, 412, 1, 211>>,
              <<413, 413, 1, 213>>, <<415, 415, 1, 214>>, <<416, 420, 2, 1>>,
              <<422, 422, 1, 218>>, <<423, 423, 1, 1>>, <<425, 425, 1, 218>>,
              <<428, 428, 1, 1>>, <<430, 430, 1, 218>>, <<431, 431, 1, 1>>,
              <<433, 434, 1, 217>>, <<435, 437, 2, 1>>, <<439, 439, 1, 219>>,
              <<440, 440, 1, 1>>, <<444, 444, 1, 1>>, <<452, 452, 1, 2>>, <<453, 453, 1, 1>>,
              <<455, 455, 1, 2>>, <<456, 456, 1, 1>>, <<458, 458, 1, 2>>, <<459, 475, 2, 1>>,
              <<478, 494, 2, 1>>, <<497, 497, 1, 2>>, <<498, 500, 2, 1>>,
              <<502, 502, 1, -97>>, <<503, 503, 1, -56>>, <<504, 542, 2, 1>>,
              <<544, 544, 1, -130>>, <<546, 562, 2, 1>>, <<570, 570, 1, 10795>>,
              <<571, 571, 1, 1>>, <<573, 573, 1, -163>>, <<574, 574, 1, 10792>>,
              <<577, 577, 1, 1>>, <<579, 579, 1, -195>>, <<580, 580, 1, 69>>,
              <<581, 581, 1, 71>>, <<582, 590, 2, 1>>, <<880, 882, 2, 1>>,
              <<886, 886, 1, 1>>, <<895, 895, 1, 116>>, <<902, 902, 1, 38>>,
              <<904, 906, 1, 37>>, <<908, 908, 1, 64>>, <<910, 911, 1, 63>>,
              <<913, 929, 1, 32>>, <<931, 939, 1, 32>>, <<975, 975, 1, 8>>,
              <<984, 1006, 2, 1>>, <<1012, 1012, 1, -60>>, <<1015, 1015, 1, 1>>,
              <<1017, 1017, 1, -7>>, <<1018, 1018, 1, 1>>, <<1021, 1023, 1, -130>>,
              <<1024, 1039, 1, 80>>, <<1040, 1071, 1, 32>>, <<1120, 1152, 2, 1>>,
              <<1162, 1214, 2, 1>>, <<1216, 1216, 1, 15>>, <<1217, 1229, 2, 1>>,
              <<1232, 1326, 2, 1>>, <<1329, 1366, 1, 48>>, <<4256, 4293, 1, 7264>>,
              <<4295, 4295, 1, 7264>>, <<4301, 4301, 1, 7264>>, <<5024, 5103, 1, 38864>>,
              <<5104, 5109, 1, 8>>, <<7312, 7354, 1, -3008>>, <<7357, 7359, 1, -3008>>,
              <<7680, 7828, 2, 1>>, <<7838, 7838, 1, -7615>>, <<7840, 7934, 2, 1>>,
              <<7944, 7951, 1, -8>>, <<7960, 7965, 1, -8>>, <<7976, 7983, 1, -8>>,
              <<7992, 7999, 1, -8>>, <<8008, 8013, 1, -8>>, <<8025, 8031, 2, -8>>,
              <<8040, 8047, 1, -8>>, <<8072, 8079, 1, -8>>, <<8088, 8095, 1, -8>>,
              <<8104, 8111, 1, -8>>, <<8120, 8121, 1, -8>>, <<8122, 8123, 1, -74>>,
              <<8124, 8124, 1, -9>>, <<8136, 8139, 1, -86>>, <<8140, 8140, 1, -9>>,
              <<8152, 8153, 1, -8>>, <<8154, 8155, 1, -100>>, <<8168, 8169, 1, -8>>,
              <<8170, 8171, 1, -112>>, <<8172, 8172, 1, -7>>, <<8184, 8185, 1, -128>>,
              <<8186, 8187, 1, -126>>, <<8188, 8188, 1, -9>>, <<8486, 8486, 1, -7517>>,
              <<8490, 8490, 1, -8383>>, <<8491, 8491, 1, -8262>>, <<8498, 8498, 1, 28>>,
              <<8544, 8559, 1, 16>>, <<8579, 8579, 1, 1>>, <<9398, 9423, 1, 26>>,
              <<11264, 11311, 1, 48>>, <<11360, 11360, 1, 1>>, <<11362, 11362, 1, -10743>>,
              <<11363, 11363, 1, -3814>>, <<11364, 11364, 1, -10727>>,
              <<11367, 11371, 2, 1>>, <<11373, 11373, 1, -10780>>,
              <<11374, 11374, 1, -10749>>, <<11375, 11375, 1, -10783>>,
              <<11376, 11376, 1, -10782>>, <<11378, 11378, 1, 1>>, <<11381, 11381, 1, 1>>,
              <<11390, 11391, 1, -10815>>, <<11392, 11490, 2, 1>>, <<11499, 11501, 2, 1>>,
              <<11506, 11506, 1, 1>>, <<42560, 42604, 2, 1>>, <<42624, 42650, 2, 1>>,
              <<42786, 42798, 2, 1>>, <<42802, 42862, 2, 1>>, <<42873, 42875, 2, 1>>,
              <<42877, 42877, 1, -35332>>, <<42878, 42886, 2, 1>>, <<42891, 42891, 1, 1>>,
              <<42893, 42893, 1, -42280>>, <<42896, 42898, 2, 1>>, <<42902, 42920, 2, 1>>,
              <<42922, 42922, 1, -42308>>, <<42923, 42923, 1, -42319>>,
              <<42924, 42924, 1, -42315>>, <<42925, 42925, 1, -42305>>,
              <<42926, 42926, 1, -42308>>, <<42928, 42928, 1, -42258>>,
              <<42929, 42929, 1, -42282>>, <<42930, 42930, 1, -42261>>,
              <<42931, 42931, 1, 928>>, <<42932, 42946, 2, 1>>, <<42948, 42948, 1, -48>>,
              <<42949, 42949, 1, -42307>>, <<42950, 42950, 1, -35384>>,
              <<42951, 42953, 2, 1>>, <<42960, 42960, 1, 1>>, <<42966, 42968, 2, 1>>,
              <<42997, 42997, 1, 1>>, <<65313, 65338, 1, 32>>, <<66560, 66599, 1, 40>>,
              <<66736, 66771, 1, 40>>, <<66928, 66964, 2, 39>>, <<66929, 66937, 2, 39>>,
              <<66941, 66953, 2, 39>>, <<66957, 66961, 2, 39>>, <<66965, 66965, 1, 39>>,
              <<68736, 68786, 1, 64>>, <<71840, 71871, 1, 32>>, <<93760, 93791, 1, 32>>,
              <<125184, 125217, 1, 34>>}
        on(n, r) == n \in r[1]..r[2] /\ (n - r[1]) % r[3] = 0
        low(n) == IF n \in 65..90 THEN <<Chr(n + 32)>>
                  ELSE IF n < 128 THEN <<c>>
                  ELSE IF n = 304 THEN <<"i", "U+0307">>
                  ELSE IF \E r \in runs : on(n, r)
                  THEN <<Chr(n + (CHOOSE r \in runs : on(n, r))[4])>>
                  ELSE <<c>>
    IN  low(Ord(c))

\* s.lower(): each character's lower case, and for U+03A3 the final sigma
\* U+03C2 when a cased character comes before it and none after it, the
\* ignorable characters in between skipped (ignorable and cased are the
\* ranges of Case_Ignorable, and of Cased without Case_Ignorable).
Lower(s) ==
    LET ignorable == {<<39, 39>>, <<46, 46>>, <<58, 58>>, <<94, 94>>, <<96, 96>>, <<168, 168>>,
                   <<173, 173>>, <<175, 175>>, <<180, 180>>, <<183, 184>>, <<688, 879>>,
                   <<884, 885>>, <<890, 890>>, <<900, 901>>, <<903, 903>>, <<1155, 1161>>,
                   <<1369, 1369>>, <<1375, 1375>>, <<1425, 1469>>, <<1471, 1471>>,
                   <<1473, 1474>>, <<1476, 1477>>, <<1479, 1479>>, <<1524, 1524>>,
                   <<1536, 1541>>, <<1552, 1562>>, <<1564, 1564>>, <<1600, 1600>>,
                   <<1611, 1631>>, <<1648, 1648>>, <<1750, 1757>>, <<1759, 1768>>,
                   <<1770, 1773>>, <<1807, 1807>>, <<1809, 1809>>, <<1840, 1866>>,
                   <<1958, 1968>>, <<2027, 2037>>, <<2042, 2042>>, <<2045, 2045>>,
                   <<2070, 2093>>, <<2137, 2139>>, <<2184, 2184>>, <<2192, 2193>>,
                   <<2200, 2207>>, <<2249, 2306>>, <<2362, 2362>>, <<2364, 2364>>,
                   <<2369, 2376>>, <<2381, 2381>>, <<2385, 2391>>, <<2402, 2403>>,
                   <<2417, 2417>>, <<2433, 2433>>, <<2492, 2492>>, <<2497, 2500>>,
                   <<2509, 2509>>, <<2530, 2531>>, <<2558, 2558>>, <<2561, 2562>>,
                   <<2620, 2620>>, <<2625, 2626>>, <<2631, 2632>>, <<2635, 2637>>,
                   <<2641, 2641>>, <<2672, 2673>>, <<2677, 2677>>, <<2689, 2690>>,
                   <<2748, 2748>>, <<2753, 2757>>, <<2759, 2760>>, <<2765, 2765>>,
                   <<2786, 2787>>, <<2810, 2815>>, <<2817, 2817>>, <<2876, 2876>>,
                   <<2879, 2879>>, <<2881, 2884>>, <<2893, 2893>>, <<2901, 2902>>,
                   <<2914, 2915>>, <<2946, 2946>>, <<3008, 3008>>, <<3021, 3021>>,
                   <<3072, 3072>>, <<3076, 3076>>, <<3132, 3132>>, <<3134, 3136>>,
                   <<3142, 3144>>, <<3146, 3149>>, <<3157, 3158>>, <<3170, 3171>>,
                   <<3201, 3201>>, <<3260, 3260>>, <<3263, 3263>>, <<3270, 3270>>,
                   <<3276, 3277>>, <<3298, 3299>>, <<3328, 3329>>, <<3387, 3388>>,
                   <<3393, 3396>>, <<3405, 3405>>, <<3426, 3427>>, <<3457, 3457>>,
                   <<3530, 3530>>, <<3538, 3540>>, <<3542, 3542>>, <<3633, 3633>>,
                   <<3636, 3642>>, <<3654, 3662>>, <<3761, 3761>>, <<3764, 3772>>,
                   <<3782, 3782>>, <<3784, 3789>>, <<3864, 3865>>, <<3893, 3893>>,
                   <<3895, 3895>>, <<3897, 3897>>, <<3953, 3966>>, <<3968, 3972>>,
                   <<3974, 3975>>, <<3981, 3991>>, <<3993, 4028>>, <<4038, 4038>>,
                   <<4141, 4144>>, <<4146, 4151>>, <<4153, 4154>>, <<4157, 4158>>,
                   <<4184, 4185>>, <<4190, 4192>>, <<4209, 4212>>, <<4226, 4226>>,
                   <<4229, 4230>>, <<4237, 4237>>, <<4253, 4253>>, <<4348, 4348>>,
                   <<4957, 4959>>, <<5906, 5908>>, <<5938, 5939>>, <<5970, 5971>>,
                   <<6002, 6003>>, <<6068, 6069>>, <<6071, 6077>>, <<6086, 6086>>,
                   <<6089, 6099>>, <<6103, 6103>>, <<6109, 6109>>, <<6155, 6159>>,
                   <<6211, 6211>>, <<6277, 6278>>, <<6313, 6313>>, <<6432, 6434>>,
                   <<6439, 6440>>, <<6450, 6450>>, <<6457, 6459>>, <<6679, 6680>>,
                   <<6683, 6683>>, <<6742, 6742>>, <<6744, 6750>>, <<6752, 6752>>,
                   <<6754, 6754>>, <<6757, 6764>>, <<6771, 6780>>, <<6783, 6783>>,
                   <<6823, 6823>>, <<6832, 6862>>, <<6912, 6915>>, <<6964, 6964>>,
                   <<6966, 6970>>, <<6972, 6972>>, <<6978, 6978>>, <<7019, 7027>>,
                   <<7040, 7041>>, <<7074, 7077>>, <<7080, 7081>>, <<7083, 7085>>,
                   <<7142, 7142>>, <<7144, 7145>>, <<7149, 7149>>, <<7151, 7153>>,
                   <<7212, 7219>>, <<7222, 7223>>, <<7288, 7293>>, <<7376, 7378>>,
                   <<7380, 7392>>, <<7394, 7400>>, <<7405, 7405>>, <<7412, 7412>>,
                   <<7416, 7417>>, <<7468, 7530>>, <<7544, 7544>>, <<7579, 7679>>,
                   <<8125, 8125>>, <<8127, 8129>>, <<8141, 8143>>, <<8157, 8159>>,
                   <<8173, 8175>>, <<8189, 8190>>, <<8203, 8207>>, <<8216, 8217>>,
                   <<8228, 8228>>, <<8231, 8231>>, <<8234, 8238>>, <<8288, 8292>>,
                   <<8294, 8303>>, <<8305, 8305>>, <<8319, 8319>>, <<8336, 8348>>,
                   <<8400, 8432>>, <<11388, 11389>>, <<11503, 11505>>, <<11631, 11631>>,
                   <<11647, 11647>>, <<11744, 11775>>, <<11823, 11823>>, <<12293, 12293>>,
                   <<12330, 12333>>, <<12337, 12341>>, <<12347, 12347>>, <<12441, 12446>>,
                   <<12540, 12542>>, <<40981, 40981>>, <<42232, 42237>>, <<42508, 42508>>,
                   <<42607, 42610>>, <<42612, 42621>>, <<42623, 42623>>, <<42652, 42655>>,
                   <<42736, 42737>>, <<42752, 42785>>, <<42864, 42864>>, <<42888, 42890>>,
                   <<42994, 42996>>, <<43000, 43001>>, <<43010, 43010>>, <<43014, 43014>>,
                   <<43019, 43019>>, <<43045, 43046>>, <<43052, 43052>>, <<43204, 43205>>,
                   <<43232, 43249>>, <<43263, 43263>>, <<43302, 43309>>, <<43335, 43345>>,
                   <<43392, 43394>>, <<43443, 43443>>, <<43446, 43449>>, <<43452, 43453>>,
                   <<43471, 43471>>, <<43493, 43494>>, <<43561, 43566>>, <<43569, 43570>>,
                   <<43573, 43574>>, <<43587, 43587>>, <<43596, 43596>>, <<43632, 43632>>,
                   <<43644, 43644>>, <<43696, 43696>>, <<43698, 43700>>, <<43703, 43704>>,
                   <<43710, 43711>>, <<43713, 43713>>, <<43741, 43741>>, <<43756, 43757>>,
                   <<43763, 43764>>, <<43766, 43766>>, <<43867, 43871>>, <<43881, 43883>>,
                   <<44005, 44005>>, <<44008, 44008>>, <<44013, 44013>>, <<64286, 64286>>,
                   <<64434, 64450>>, <<65024, 65039>>, <<65043, 65043>>, <<65056, 65071>>,
                   <<65106, 65106>>, <<65109, 65109>>, <<65279, 65279>>, <<65287, 65287>>,
                   <<65294, 65294>>, <<65306, 65306>>, <<65342, 65342>>, <<65344, 65344>>,
                   <<65392, 65392>>, <<65438, 65439>>, <<65507, 65507>>, <<65529, 65531>>,
                   <<66045, 66045>>, <<66272, 66272>>, <<66422, 66426>>, <<67456, 67461>>,
                   <<67463, 67504>>, <<67506, 67514>>, <<68097, 68099>>, <<68101, 68102>>,
                   <<68108, 68111>>, <<68152, 68154>>, <<68159, 68159>>, <<68325, 68326>>,
                   <<68900, 68903>>, <<69291, 69292>>, <<69446, 69456>>, <<69506, 69509>>,
                   <<69633, 69633>>, <<69688, 69702>>, <<69744, 69744>>, <<69747, 69748>>,
                   <<69759, 69761>>, <<69811, 69814>>, <<69817, 69818>>, <<69821, 69821>>,
                   <<69826, 69826>>, <<69837, 69837>>, <<69888, 69890>>, <<69927, 69931>>,
                   <<69933, 69940>>, <<70003, 70003>>, <<70016, 70017>>, <<70070, 70078>>,
                   <<70089, 70092>>, <<70095, 70095>>, <<70191, 70193>>, <<70196, 70196>>,
                   <<70198, 70199>>, <<70206, 70206>>, <<70367, 70367>>, <<70371, 70378>>,
                   <<70400, 70401>>, <<70459, 70460>>, <<70464, 70464>>, <<70502, 70508>>,
                   <<70512, 70516>>, <<70712, 70719>>, <<70722, 70724>>, <<70726, 70726>>,
                   <<70750, 70750>>, <<70835, 70840>>, <<70842, 70842>>, <<70847, 70848>>,
                   <<70850, 70851>>, <<71090, 71093>>, <<71100, 71101>>, <<71103, 71104>>,
                   <<71132, 71133>>, <<71219, 71226>>, <<71229, 71229>>, <<71231, 71232>>,
                   <<71339, 71339>>, <<71341, 71341>>, <<71344, 71349>>, <<71351, 71351>>,
                   <<71453, 71455>>, <<71458, 71461>>, <<71463, 71467>>, <<71727, 71735>>,
                   <<71737, 71738>>, <<71995, 71996>>, <<71998, 71998>>, <<72003, 72003>>,
                   <<72148, 72151>>, <<72154, 72155>>, <<72160, 72160>>, <<72193, 72202>>,
                   <<72243, 72248>>, <<72251, 72254>>, <<72263, 72263>>, <<72273, 72278>>,
                   <<72281, 72283>>, <<72330, 72342>>, <<72344, 72345>>, <<72752, 72758>>,
                   <<72760, 72765>>, <<72767, 72767>>, <<72850, 72871>>, <<72874, 72880>>,
                   <<72882, 72883>>, <<72885, 72886>>, <<73009, 73014>>, <<73018, 73018>>,
                   <<73020, 73021>>, <<73023, 73029>>, <<73031, 73031>>, <<73104, 73105>>,
                   <<73109, 73109>>, <<73111, 73111>>, <<73459, 73460>>, <<78896, 78904>>,
                   <<92912, 92916>>, <<92976, 92982>>, <<92992, 92995>>, <<94031, 94031>>,
                   <<94095, 94111>>, <<94176, 94177>>, <<94179, 94180>>, <<110576, 110579>>,
                   <<110581, 110587>>, <<110589, 110590>>, <<113821, 113822>>,
                   <<113824, 113827>>, <<118528, 118573>>, <<118576, 118598>>,
                   <<119143, 119145>>, <<119155, 119170>>, <<119173, 119179>>,
                   <<119210, 119213>>, <<119362, 119364>>, <<121344, 121398>>,
                   <<121403, 121452>>, <<121461, 121461>>, <<121476, 121476>>,
                   <<121499, 121503>>, <<121505, 121519>>, <<122880, 122886>>,
                   <<122888, 122904>>, <<122907, 122913>>, <<122915, 122916>>,
                   <<122918, 122922>>, <<123184, 123197>>, <<123566, 123566>>,
                   <<123628, 123631>>, <<125136, 125142>>, <<125252, 125259>>,
                   <<127995, 127999>>, <<917505, 917505>>, <<917536, 917631>>,
                   <<917760, 917999>>}
        cased == {<<65, 90>>, <<97, 122>>, <<170, 170>>, <<181, 181>>, <<186, 186>>,
               <<192, 214>>, <<216, 246>>, <<248, 442>>, <<444, 447>>, <<452, 659>>,
               <<661, 687>>, <<880, 883>>, <<886, 887>>, <<891, 893>>, <<895, 895>>,
               <<902, 902>>, <<904, 906>>, <<908, 908>>, <<910, 929>>, <<931, 1013>>,
               <<1015, 1153>>, <<1162, 1327>>, <<1329, 1366>>, <<1376, 1416>>,
               <<4256, 4293>>, <<4295, 4295>>, <<4301, 4301>>, <<4304, 4346>>,
               <<4349, 4351>>, <<5024, 5109>>, <<5112, 5117>>, <<7296, 7304>>,
               <<7312, 7354>>, <<7357, 7359>>, <<7424, 7467>>, <<7531, 7543>>,
               <<7545, 7578>>, <<7680, 7957>>, <<7960, 7965>>, <<7968, 8005>>,
               <<8008, 8013>>, <<8016, 8023>>, <<8025, 8025>>, <<8027, 8027>>,
               <<8029, 8029>>, <<8031, 8061>>, <<8064, 8116>>, <<8118, 8124>>,
               <<8126, 8126>>, <<8130, 8132>>, <<8134, 8140>>, <<8144, 8147>>,
               <<8150, 8155>>, <<8160, 8172>>, <<8178, 8180>>, <<8182, 8188>>,
               <<8450, 8450>>, <<8455, 8455>>, <<8458, 8467>>, <<8469, 8469>>,
               <<8473, 8477>>, <<8484, 8484>>, <<8486, 8486>>, <<8488, 8488>>,
               <<8490, 8493>>, <<8495, 8500>>, <<8505, 8505>>, <<8508, 8511>>,
               <<8517, 8521>>, <<8526, 8526>>, <<8544, 8575>>, <<8579, 8580>>,
               <<9398, 9449>>, <<11264, 11387>>, <<11390, 11492>>, <<11499, 11502>>,
               <<11506, 11507>>, <<11520, 11557>>, <<11559, 11559>>, <<11565, 11565>>,
               <<42560, 42605>>, <<42624, 42651>>, <<42786, 42863>>, <<42865, 42887>>,
               <<42891, 42894>>, <<42896, 42954>>, <<42960, 42961>>, <<42963, 42963>>,
               <<42965, 42969>>, <<42997, 42998>>, <<43002, 43002>>, <<43824, 43866>>,
               <<43872, 43880>>, <<43888, 43967>>, <<64256, 64262>>, <<64275, 64279>>,
               <<65313, 65338>>, <<65345, 65370>>, <<66560, 66639>>, <<66736, 66771>>,
               <<66776, 66811>>, <<66928, 66938>>, <<66940, 66954>>, <<66956, 66962>>,
               <<66964, 66965>>, <<66967, 66977>>, <<66979, 66993>>, <<66995, 67001>>,
               <<67003, 67004>>, <<68736, 68786>>, <<68800, 68850>>, <<71840, 71903>>,
               <<93760, 93823>>, <<119808, 119892>>, <<119894, 119964>>, <<119966, 119967>>,
               <<119970, 119970>>, <<119973, 119974>>, <<119977, 119980>>,
               <<119982, 119993>>, <<119995, 119995>>, <<119997, 120003>>,
               <<120005, 120069>>, <<120071, 120074>>, <<120077, 120084>>,
               <<120086, 120092>>, <<120094, 120121>>, <<120123, 120126>>,
               <<120128, 120132>>, <<120134, 120134>>, <<120138, 120144>>,
               <<120146, 120485>>, <<120488, 120512>>, <<120514, 120538>>,
               <<120540, 120570>>, <<120572, 120596>>, <<120598, 120628>>,
               <<120630, 120654>>, <<120656, 120686>>, <<120688, 120712>>,
               <<120714, 120744>>, <<120746, 120770>>, <<120772, 120779>>,
               <<122624, 122633>>, <<122635, 122654>>, <<125184, 125251>>,
               <<127280, 127305>>, <<127312, 127337>>, <<127344, 127369>>}
        within(c, ranges) == \E r \in ranges : Ord(c) \in r[1]..r[2]
        skipped(i, j) == \A k \in (i + 1)..(j - 1) : within(s[k], ignorable)
        before(i) == \E j \in 1..(i - 1) : within(s[j], cased) /\ skipped(j, i)
        after(i) == \E j \in (i + 1)..Len(s) : within(s[j], cased) /\ skipped(i, j)
        one(i) == IF s[i] = "U+03A3"
                  THEN <<IF before(i) /\ ~after(i) THEN "U+03C2" ELSE "U+03C3">>
                  ELSE LowerChar(s[i])
        RECURSIVE from(_)
        from(i) == IF i > Len(s) THEN <<>> ELSE one(i) \o from(i + 1)
    IN  from(1)
IsSubstr(q, t) == \E i \in 0..(Len(t) - Len(q)) : SubSeq(t, i + 1, i + Len(q)) = q
StrLess(x, y) ==
    LET n == IF Len(x) < Len(y) THEN Len(x) ELSE Len(y)
        d == {i \in 1..n : x[i] # y[i]}
    IN  IF d = {} THEN Len(x) < Len(y)
        ELSE LET i == CHOOSE i \in d : \A j \in d : i <= j IN Ord(x[i]) < Ord(y[i])

\* Python truth of an Optional[str]
Truthy(s) == s # NoneStr /\ s # <<>>

\* Mutant: a task without a due date fails a date bound.
match_due_required(t, query, due_before, due_after) ==
    LET text == Lower(Get(t, "title", <<>>) \o <<" ">> \o Get(t, "notes", <<>>))
        due == Get(t, "due", NoneStr)
    IN  IF Truthy(query) /\ ~IsSubstr(Lower(query), text) THEN FALSE
        ELSE IF Truthy(due_before) /\ (~Truthy(due) \/ StrLess(due_before, due)) THEN FALSE
        ELSE IF Truthy(due_after) /\ (~Truthy(due) \/ StrLess(due, due_after)) THEN FALSE
        ELSE TRUE

\* search_tasks._match
_match(t, query, due_before, due_after) ==
    LET text == Lower(Get(t, "title", <<>>) \o <<" ">> \o Get(t, "notes", <<>>))
        due == Get(t, "due", NoneStr)
    IN  IF Truthy(query) /\ ~IsSubstr(Lower(query), text) THEN FALSE
        ELSE IF Truthy(due_before) /\ Truthy(due) /\ StrLess(due_before, due) THEN FALSE
        ELSE IF Truthy(due_after) /\ Truthy(due) /\ StrLess(due, due_after) THEN FALSE
        ELSE TRUE

search_tasks_try(S, a, o, f) ==
    LET keep(t) == _match(t, a.query, a.due_before, a.due_after)
        matched(p, V, filtered) ==
            Return(V, [tasklist_id |-> p.tasklist_id, total |-> Len(filtered),
                       tasks |-> filtered])
        listed(p, q) ==
            IF q.exc # "" THEN Raised(q.W, q.exc, <<>>)
            ELSE matched(p, q.W, SelectSeq(Get(q.value, "items", <<>>), keep))
        resolved(p) ==
            IF p.done THEN p.end
            ELSE listed(p, tasks_list(p.W, f,
                               [tasklist |-> p.tasklist_id, maxResults |-> a.max_results,
                                showCompleted |-> a.include_completed,
                                showDeleted |-> a.include_deleted]))
    IN  resolved(Resolved(S, a, o, f))

search_tasks(S, a, o, f) == Except(search_tasks_try(S, a, o, f))

move_task_try(S, a, o, f) ==
    LET moved(p, m) ==
            IF m.exc # "" THEN Raised(m.W, m.exc, <<>>)
            ELSE Return(m.W, [tasklist_id |-> p.tasklist_id, task |-> m.value])
        resolved(p) ==
            IF p.done THEN p.end
            ELSE moved(p, tasks_move(p.W, f,
                              Merge(Merge([tasklist |-> p.tasklist_id, task |-> a.task_id],
                                          Opt("parent", a.parent, NoneId)),
                                    Opt("previous", a.previous, NoneId))))
    IN  resolved(Resolved(S, a, o, f))

move_task(S, a, o, f) == Except(move_task_try(S, a, o, f))

\* ------------------------------------------------------------- inputs
Chars(d1, d2, d3, d4, m1, m2, a1, a2) == <<d1, d2, d3, d4, "-", m1, m2, "-", a1, a2>>

Due_2024_12_31 == Chars("2", "0", "2", "4", "1", "2", "3", "1")
Due_2024_02_29 == Chars("2", "0", "2", "4", "0", "2", "2", "9")
Due_2023_02_29 == Chars("2", "0", "2", "3", "0", "2", "2", "9")
Due_0999_01_01 == Chars("0", "9", "9", "9", "0", "1", "0", "1")
Due_31_12_2024 == <<"3", "1", "-", "1", "2", "-", "2", "0", "2", "4">>
Due_Timestamp == Due_2024_12_31 \o <<"T", "1", "0", ":", "0", "0", ":", "0", "0", "Z">>
Due_Tuesday == <<"T", "u", "e", "s", "d", "a", "y">>
Due_2024_06_01_Z == Chars("2", "0", "2", "4", "0", "6", "0", "1") \o MidnightSuffix

TitleA == <<"B", "u", "y">>
TitleB == <<"P", "a", "y">>
NotesN == <<"m", "i", "l", "k">>
ListTitle == <<"W", "o", "r", "k">>

TasklistArgs == {DEFAULT, UnknownList} \cup ListIds
TaskArgs == TaskIds \cup {UnknownTask}

Faults(ops) == {NoFault} \cup [op : ops, exc : ExcClasses]

\* ------------------------------------------------------------- actions
State == [token_env |-> token_env, token_file |-> token_file,
          credentials_file |-> credentials_file, tasklists |-> tasklists, tasks |-> tasks]

Outcomes == RelevantOutcomes(token_env, token_file, credentials_file)

\* The fault names a call the invocation made (else it is NoFault's run).
Struck(r, f) == f = NoFault \/ \E i \in 1..Len(r.W.log) : r.W.log[i].op = f.op

\* The host runs the handler to its end and holds what it returned.
Serve(tool, a, f, r) ==
    /\ Struck(r, f)
    /\ pc' = "responded"
    /\ request' = [tool |-> tool, args |-> a]
    /\ log' = r.W.log
    /\ result' = IF r.kind = "return" THEN [kind |-> "return", value |-> r.value]
                 ELSE [kind |-> "raise", exc |-> r.exc]
    /\ tasklists' = r.W.tasklists
    /\ tasks' = r.W.tasks
    /\ token_file' = r.W.token_file
    /\ UNCHANGED <<token_env, credentials_file, failed_before>>

GetTasks(Args) ==
    /\ pc = "idle"
    /\ \E a \in Args, o \in Outcomes, f \in Faults({"tasklists.list", "tasks.list"}) :
          Serve("get_tasks", a, f, get_tasks(State, a, o, f))

ListTasklists ==
    /\ pc = "idle"
    /\ \E o \in Outcomes, f \in Faults({"tasklists.list"}) :
          Serve("list_tasklists", <<>>, f, list_tasklists(State, <<>>, o, f))

CreateTask(Args) ==
    /\ pc = "idle"
    /\ \E a \in Args, o \in Outcomes, f \in Faults({"tasklists.list", "tasks.insert"}) :
          Serve("create_task", a, f, create_task(State, a, o, f))

UpdateTask(Args) ==
    /\ pc = "idle"
    /\ \E a \in Args, o \in Outcomes,
          f \in Faults({"tasklists.list", "tasks.get", "tasks.patch", "tasks.move"}) :
          Serve("update_task", a, f, update_task(State, a, o, f))

CompleteTask(Args) ==
    /\ pc = "idle"
    /\ \E a \in Args, o \in Outcomes, f \in Faults({"tasklists.list", "tasks.patch"}) :
          Serve("complete_task", a, f, complete_task(State, a, o, f))

DeleteTask(Args) ==
    /\ pc = "idle"
    /\ \E a \in Args, o \in Outcomes, f \in Faults({"tasklists.list", "tasks.delete"}) :
          Serve("delete_task", a, f, delete_task(State, a, o, f))

CreateTasklist(Args) ==
    /\ pc = "idle"
    /\ \E a \in Args, o \in Outcomes, f \in Faults({"tasklists.insert"}) :
          Serve("create_tasklist", a, f, create_tasklist(State, a, o, f))

GetTask(Args) ==
    /\ pc = "idle"
    /\ \E a \in Args, o \in Outcomes, f \in Faults({"tasklists.list", "tasks.get"}) :
          Serve("get_task", a, f, get_task(State, a, o, f))

SearchTasks(Args) ==
    /\ pc = "idle"
    /\ \E a \in Args, o \in Outcomes, f \in Faults({"tasklists.list", "tasks.list"}) :
          Serve("search_tasks", a, f, search_tasks(State, a, o, f))

MoveTask(Args) ==
    /\ pc = "idle"
    /\ \E a \in Args, o \in Outcomes, f \in Faults({"tasklists.list", "tasks.move"}) :
          Serve("move_task", a, f, move_task(State, a, o, f))

\* The invocation whose log this is was given a service by the provider.
GotService(lg) ==
    \E i \in 1..Len(lg) : lg[i].op = "get_google_tasks_service" /\ lg[i].service

\* The host hands the response to the client and awaits the next tool call.
Deliver ==
    /\ pc = "responded"
    /\ pc' = "idle"
    /\ request' = NoRequest
    /\ log' = <<>>
    /\ result' = NoResult
    /\ failed_before' = (failed_before \/ ~GotService(log))
    /\ UNCHANGED <<token_env, token_file, credentials_file, tasklists, tasks>>

\* ------------------------------------------------------------- specification
ValidCreds == [token |-> TRUE, expired |-> FALSE, refresh_token |-> TRUE]
ExpiredCreds == [token |-> TRUE, expired |-> TRUE, refresh_token |-> TRUE]
UnrefreshableCreds == [token |-> TRUE, expired |-> TRUE, refresh_token |-> FALSE]

\* The enumerations the remote can return: every duplicate-free order of
\* every subset of the list ids.
Enumerations ==
    {e \in UNION {[1..n -> ListIds] : n \in 0..MaxLists} :
        \A i, j \in 1..Len(e) : e[i] = e[j] => i = j}
ListsOf(e) == [i \in 1..Len(e) |-> [id |-> e[i], title |-> ListTitle]]

EmptyAccount == [t \in TaskIds |-> NoTask]

\* Hosts: (GOOGLE_TASKS_TOKEN, token.json, credentials.json present)
Hosts ==
    { <<Stored(ValidCreds), AbsentFile, FALSE>>,
      <<UnsetEnv, AbsentFile, FALSE>>,
      <<Garbage, Garbage, FALSE>> }

GetTasksArgs == [tasklist_id : TasklistArgs, max_results : {100},
                 show_completed : BOOLEAN, show_deleted : {FALSE}]
CreateTaskArgs == [title : {TitleA}, due : {Due_2024_12_31, Due_31_12_2024},
                   tasklist_id : TasklistArgs, notes : {NoneStr},
                   parent : {NoneId}, position : {NoneId}]
UpdateTaskArgs ==
    [task_id : TaskArgs, tasklist_id : TasklistArgs, title : {NoneStr},
     notes : {NoneStr}, due : {NoneStr}, status : {NoneId}, parent : {NoneId},
     position : {NoneId}]
    \cup [task_id : TaskArgs, tasklist_id : TasklistArgs, title : {TitleA},
          notes : {NoneStr}, due : {NoneStr}, status : {NoneId}, parent : {NoneId},
          position : {"t1"}]
CompleteTaskArgs == [task_id : TaskArgs, tasklist_id : TasklistArgs, completed : BOOLEAN]
DeleteTaskArgs == [task_id : TaskArgs, tasklist_id : TasklistArgs]
CreateTasklistArgs == [title : {ListTitle}]
GetTaskArgs == [task_id : TaskArgs, tasklist_id : TasklistArgs]
SearchTasksArgs == [tasklist_id : TasklistArgs, query : {NoneStr, <<"b", "u", "y">>},
                    include_completed : {FALSE}, include_deleted : {FALSE},
                    due_before : {NoneStr}, due_after : {NoneStr}, max_results : {100}]
MoveTaskArgs == [task_id : TaskArgs, tasklist_id : TasklistArgs,
                 parent : {NoneId}, previous : {NoneId, "t1"}]

Init ==
    /\ \E h \in Hosts : token_env = h[1] /\ token_file = h[2] /\ credentials_file = h[3]
    /\ \E e \in Enumerations : tasklists = ListsOf(e)
    /\ tasks = EmptyAccount
    /\ pc = "idle"
    /\ request = NoRequest
    /\ log = <<>>
    /\ result = NoResult
    /\ failed_before = FALSE

Next ==
    \/ GetTasks(GetTasksArgs)
    \/ ListTasklists
    \/ CreateTask(CreateTaskArgs)
    \/ UpdateTask(UpdateTaskArgs)
    \/ CompleteTask(CompleteTaskArgs)
    \/ DeleteTask(DeleteTaskArgs)
    \/ CreateTasklist(CreateTasklistArgs)
    \/ GetTask(GetTaskArgs)
    \/ SearchTasks(SearchTasksArgs)
    \/ MoveTask(MoveTaskArgs)
    \/ Deliver

Spec == Init /\ [][Next]_vars

\* ---- credential acquisition in focus: every stored credential state, in the
\* environment and in the token file, with and without the client secret;
\* one request per tool.
NoTokenCreds == [token |-> FALSE, expired |-> FALSE, refresh_token |-> FALSE]
StoredStates == {Stored(ValidCreds), Stored(ExpiredCreds), Stored(UnrefreshableCreds),
                 Stored(NoTokenCreds), Garbage}
AuthGetTasksArgs == [tasklist_id : {DEFAULT}, max_results : {100},
                     show_completed : {FALSE}, show_deleted : {FALSE}]
AuthCreateTaskArgs == [title : {TitleA}, due : {Due_2024_12_31}, tasklist_id : {DEFAULT},
                       notes : {NoneStr}, parent : {NoneId}, position : {NoneId}]
AuthUpdateTaskArgs == [task_id : {"t1"}, tasklist_id : {DEFAULT}, title : {TitleA},
                       notes : {NoneStr}, due : {NoneStr}, status : {NoneId},
                       parent : {NoneId}, position : {NoneId}]
AuthCompleteTaskArgs == [task_id : {"t1"}, tasklist_id : {DEFAULT}, completed : {TRUE}]
AuthTaskArgs == [task_id : {"t1"}, tasklist_id : {DEFAULT}]
AuthSearchTasksArgs == [tasklist_id : {DEFAULT}, query : {NoneStr},
                        include_completed : {FALSE}, include_deleted : {FALSE},
                        due_before : {NoneStr}, due_after : {NoneStr}, max_results : {100}]
AuthMoveTaskArgs == [task_id : {"t1"}, tasklist_id : {DEFAULT},
                     parent : {NoneId}, previous : {NoneId}]

InitAuth ==
    /\ token_env \in {UnsetEnv} \cup StoredStates
    /\ token_file \in {AbsentFile} \cup StoredStates
    /\ credentials_file \in BOOLEAN
    /\ tasklists = ListsOf(<<ListName[1]>>)
    /\ tasks = EmptyAccount
    /\ pc = "idle"
    /\ request = NoRequest
    /\ log = <<>>
    /\ result = NoResult
    /\ failed_before = FALSE

NextAuth ==
    \/ GetTasks(AuthGetTasksArgs)
    \/ ListTasklists
    \/ CreateTask(AuthCreateTaskArgs)
    \/ UpdateTask(AuthUpdateTaskArgs)
    \/ CompleteTask(AuthCompleteTaskArgs)
    \/ DeleteTask(AuthTaskArgs)
    \/ CreateTasklist(CreateTasklistArgs)
    \/ GetTask(AuthTaskArgs)
    \/ SearchTasks(AuthSearchTasksArgs)
    \/ MoveTask(AuthMoveTaskArgs)
    \/ Deliver

SpecAuth == InitAuth /\ [][NextAuth]_vars

\* ---- create_task in focus: every kind of due text, and every combination of
\* the optional arguments.
DueTexts == {Due_2024_12_31, Due_2024_02_29, Due_2023_02_29, Due_0999_01_01,
             Due_31_12_2024, Due_Timestamp, Due_Tuesday, <<>>,
             Chars("U+0662", "U+0660", "U+0662", "U+0664", "1", "2", "3", "1"),
             Chars("2", "0", "2", "4", "1", "2", "2", "U+09E9"),
             Chars("2", "0", "2", "4", "U+0661", "2", "3", "1"),
             Chars("2", "0", "2", "4", "1", "2", "0", "U+0663")}
WideCreateTaskArgs ==
    [title : {TitleA}, due : DueTexts, tasklist_id : TasklistArgs, notes : {NoneStr},
     parent : {NoneId}, position : {NoneId}]
    \cup [title : {TitleB}, due : {Due_2024_12_31, Due_31_12_2024}, tasklist_id : {DEFAULT},
          notes : {NoneStr, NotesN}, parent : {NoneId, "t1"}, position : {NoneId, "t1"}]

NextCreate ==
    \/ CreateTask(WideCreateTaskArgs)
    \/ DeleteTask(AuthTaskArgs)
    \/ Deliver

SpecCreate == Init /\ [][NextCreate]_vars

\* ---- update_task in focus: an account that holds two tasks in its first
\* list, every combination of supplied fields, and placements that the remote
\* accepts and rejects.
Task(id, title) ==
    [present |-> TRUE, tasklist |-> ListName[1],
     resource |-> [id |-> id, status |-> "needsAction", position |-> NoneId,
                   title |-> title, due |-> Due_2024_12_31 \o MidnightSuffix]]
TwoTasks == [t \in TaskIds |-> Task(t, TitleA)]

WideUpdateTaskArgs ==
    [task_id : {"t1", UnknownTask}, tasklist_id : {DEFAULT, ListName[1], UnknownList},
     title : {NoneStr, TitleB}, notes : {NoneStr, NotesN},
     due : {NoneStr, Due_2024_06_01_Z}, status : {NoneId, "completed"},
     parent : {NoneId, "t2", UnknownTask}, position : {NoneId, "t2"}]

InitUpdate ==
    /\ \E h \in Hosts : token_env = h[1] /\ token_file = h[2] /\ credentials_file = h[3]
    /\ tasklists \in {ListsOf(<<>>), ListsOf(<<ListName[1]>>)}
    /\ tasks = IF tasklists = <<>> THEN EmptyAccount ELSE TwoTasks
    /\ pc = "idle"
    /\ request = NoRequest
    /\ log = <<>>
    /\ result = NoResult
    /\ failed_before = FALSE

NextUpdate ==
    \/ UpdateTask(WideUpdateTaskArgs)
    \/ Deliver

SpecUpdate == InitUpdate /\ [][NextUpdate]_vars

\* ---- search_tasks in focus: an account whose first list holds a task with
\* notes and a due date and a task without notes, with or without a due
\* date, open or completed, or titled with accented letters; queries in both
\* cases, empty, accented, and across the joint of title and notes; date
\* bounds before, between and after.
SearchAccounts ==
    LET first == [id |-> "t1", status |-> "needsAction", position |-> NoneId,
                  title |-> TitleA, notes |-> NotesN,
                  due |-> Chars("2", "0", "2", "4", "0", "1", "0", "1") \o MidnightSuffix]
        second == [id |-> "t2", status |-> "needsAction", position |-> NoneId,
                   title |-> TitleB]
        seconds == {second, [second EXCEPT !.status = "completed"],
                    Merge(second, [due |-> Due_2024_06_01_Z]),
                    [second EXCEPT !.title = <<"U+00C9", "t", "U+00E9">>]}
        held(r) == [present |-> TRUE, tasklist |-> ListName[1], resource |-> r]
    IN  {[t \in TaskIds |-> IF t = "t1" THEN held(first) ELSE held(r)] : r \in seconds}

WideSearchTasksArgs ==
    [tasklist_id : {DEFAULT, UnknownList},
     query : {NoneStr, <<>>, <<"b", "u", "y">>, <<"P", "A", "Y">>, <<"y", " ", "m">>,
              <<"y", "m">>, <<"U+00C9", "T">>},
     include_completed : BOOLEAN, include_deleted : {FALSE},
     due_before : {NoneStr, <<>>, Chars("2", "0", "2", "4", "0", "3", "0", "1"),
                   Due_2024_12_31},
     due_after : {NoneStr, Chars("2", "0", "2", "4", "0", "3", "0", "1")},
     max_results : {1, 100}]

InitSearch ==
    /\ \E h \in Hosts : token_env = h[1] /\ token_file = h[2] /\ credentials_file = h[3]
    /\ tasklists = ListsOf(<<ListName[1]>>)
    /\ tasks \in SearchAccounts
    /\ pc = "idle"
    /\ request = NoRequest
    /\ log = <<>>
    /\ result = NoResult
    /\ failed_before = FALSE

NextSearch ==
    \/ SearchTasks(WideSearchTasksArgs)
    \/ Deliver

SpecSearch == InitSearch /\ [][NextSearch]_vars

\* ---- get_tasks in focus: the accounts of the search focus (two tasks in
\* the first list, the second open or completed), every combination of the
\* two filters, and a limit below and above the number of tasks.
NextGet ==
    \/ GetTasks([tasklist_id : {DEFAULT, ListName[1], UnknownList}, max_results : {1, 100},
                 show_completed : BOOLEAN, show_deleted : BOOLEAN])
    \/ Deliver

SpecGet == InitSearch /\ [][NextGet]_vars

\* ---- two providers, one token file: lines 58-106 run by two invocations
\* that the host does not serialise (two threads, or two server processes
\* started from the same directory: TOKEN_FILE is a path next to the script).
\* Here pc, log and result hold one entry per invocation, pc is the line an
\* invocation has reached together with its local creds (kept at the return
\* of the paths that refreshed), and token_file is
\* the text of token.json.
\* The access tokens a refresh can be answered with; their lengths differ.
AccessTokens == {<<"a">>, <<"b", "b">>}

\* creds.to_json(): the access token and the expiry are what vary.
to_json(c) == <<"{">> \o c.access \o <<",", IF c.expired THEN "0" ELSE "1", "}">>

\* Credentials.from_authorized_user_file(TOKEN_FILE, SCOPES): the text parsed
\* back; text that is not one complete object is rejected.
from_authorized_user_file(text) ==
    LET n == Len(text)
    IN  IF /\ n >= 5
           /\ text[1] = "{" /\ text[n] = "}" /\ text[n - 2] = ","
           /\ text[n - 1] \in {"0", "1"}
           /\ \A i \in 2..(n - 3) : text[i] \in {"o", "a", "b"}
        THEN Stored([token |-> TRUE, expired |-> text[n - 1] = "0", refresh_token |-> TRUE,
                     access |-> SubSeq(text, 2, n - 3)])
        ELSE Garbage

\* Lines 58-72 and, for the paths that do not save, on to the return: the
\* file is read, an expired credential is refreshed.
RaceRefresh(w) ==
    /\ pc[w].at = "load"
    /\ \E t \in AccessTokens, ok \in BOOLEAN, build \in BOOLEAN :
          LET file == from_authorized_user_file(token_file)
              read == <<Step("token_file.read", file.kind = "creds")>>
              returned(ev, exc, service) ==
                  /\ pc' = [pc EXCEPT ![w] = [at |-> "returned"]]
                  /\ log' = [log EXCEPT ![w] = ev]
                  /\ result' = [result EXCEPT ![w] = [exc |-> exc, service |-> service]]
          IN  IF file.kind # "creds"
              THEN returned(read, "Exception", NoService)
              ELSE IF Valid(file.creds)
              THEN returned(read \o <<Step("build", build)>>, "",
                            IF build THEN [ok |-> TRUE, credentials |-> file.creds]
                            ELSE NoService)
              ELSE IF ~ok
              THEN returned(read \o <<Step("creds.refresh", FALSE)>>, "", NoService)
              ELSE /\ pc' = [pc EXCEPT ![w] =
                                [at |-> "save",
                                 creds |-> [Refreshed(file.creds) EXCEPT !.access = t]]]
                   /\ log' = [log EXCEPT ![w] = read \o <<Step("creds.refresh", TRUE)>>]
                   /\ UNCHANGED result
    /\ UNCHANGED <<token_env, token_file, credentials_file, tasklists, tasks, request,
                   failed_before>>

\* Line 96, open(TOKEN_FILE, 'w'): the file is emptied; when the open raises,
\* the failure is logged and the provider goes on to line 101.
RaceOpen(w) ==
    /\ pc[w].at = "save"
    /\ \E ok \in BOOLEAN, build \in BOOLEAN :
          IF ok
          THEN /\ token_file' = <<>>
               /\ pc' = [pc EXCEPT ![w] = [at |-> "write", creds |-> pc[w].creds]]
               /\ UNCHANGED <<log, result>>
          ELSE /\ pc' = [pc EXCEPT ![w] = [at |-> "returned", creds |-> pc[w].creds]]
               /\ log' = [log EXCEPT ![w] = @ \o <<Step("token_file.write", FALSE),
                                                   Step("build", build)>>]
               /\ result' = [result EXCEPT ![w] =
                                [exc |-> "",
                                 service |-> IF build
                                             THEN [ok |-> TRUE, credentials |-> pc[w].creds]
                                             ELSE NoService]]
               /\ UNCHANGED token_file
    /\ UNCHANGED <<token_env, credentials_file, tasklists, tasks, request, failed_before>>

\* Lines 97-106: the text is written from this invocation's own offset 0 when
\* the file is closed, over whatever the file holds by then, and the service
\* is built.  A write that raises (disk full, file size limit) has put down
\* the first n characters, n short of the whole text.
RaceWrite(w) ==
    /\ pc[w].at = "write"
    /\ \E n \in 0..Len(to_json(pc[w].creds)), build \in BOOLEAN :
          LET text == to_json(pc[w].creds)
          IN  /\ token_file' = SubSeq(text, 1, n) \o SubSeq(token_file, n + 1, Len(token_file))
              /\ pc' = [pc EXCEPT ![w] = [at |-> "returned", creds |-> pc[w].creds]]
              /\ log' = [log EXCEPT ![w] = @ \o <<Step("token_file.write", n = Len(text)),
                                                  Step("build", build)>>]
              /\ result' = [result EXCEPT ![w] =
                               [exc |-> "",
                                service |-> IF build
                                            THEN [ok |-> TRUE, credentials |-> pc[w].creds]
                                            ELSE NoService]]
    /\ UNCHANGED <<token_env, credentials_file, tasklists, tasks, request, failed_before>>

InitRace ==
    /\ token_env = UnsetEnv
    /\ token_file = to_json([token |-> TRUE, expired |-> TRUE, refresh_token |-> TRUE,
                             access |-> <<"o">>])
    /\ credentials_file \in BOOLEAN
    /\ tasklists = ListsOf(<<ListName[1]>>)
    /\ tasks = EmptyAccount
    /\ pc = [w \in 1..MaxInvocations |-> [at |-> "load"]]
    /\ request = [w \in 1..MaxInvocations |-> [tool |-> "list_tasklists", args |-> <<>>]]
    /\ log = [w \in 1..MaxInvocations |-> <<>>]
    /\ result = [w \in 1..MaxInvocations |-> NoResult]
    /\ failed_before = FALSE

NextRace ==
    \E w \in 1..MaxInvocations :
        \/ RaceRefresh(w)
        \/ RaceOpen(w)
        \/ RaceWrite(w)

SpecRace == InitRace /\ [][NextRace]_vars

\* ------------------------------------------------------------- properties
TaskTools == {"get_tasks", "get_task", "create_task", "update_task", "complete_task",
              "delete_task", "move_task", "search_tasks"}

\* The identifiers of the account's lists, in the remote's order.  A
\* task-level handler leaves the lists alone, so once it has responded this
\* is the enumeration it was given.
Enumerated == [i \in 1..Len(tasklists) |-> tasklists[i].id]

Requested == request.args.tasklist_id
Unresolvable == IF Requested = DEFAULT THEN Enumerated = <<>>
                ELSE Requested \notin Range(Enumerated)
CallsOf(ops) == {i \in 1..Len(log) : log[i].op \in ops}
EnumerationDone == \E i \in CallsOf({"tasklists.list"}) : log[i].exc = ""
IsErrorEnvelope == result.kind = "return" /\ "error" \in DOMAIN result.value
TaskToolResponded == pc = "responded" /\ request.tool \in TaskTools

\* C1: a task-level handler issues a call on the tasks collection only after
\* the enumeration of the same invocation succeeded, and only against the
\* list the request resolves to; a request that does not resolve (the alias
\* with no lists, an explicit id not enumerated) ends in an error envelope
\* with no task-level call.
C1_TaskCallsOnlyAfterResolution ==
    TaskToolResponded =>
        /\ Unresolvable => (IsErrorEnvelope /\ CallsOf(TaskOps) = {})
        /\ \A i \in CallsOf(TaskOps) :
              /\ \E j \in 1..(i - 1) : log[j].op = "tasklists.list" /\ log[j].exc = ""
              /\ log[i].kwargs.tasklist \in Range(Enumerated)
              /\ log[i].kwargs.tasklist =
                    (IF Requested = DEFAULT THEN Enumerated[1] ELSE Requested)

C1_Witness ==
    /\ pc = "responded" /\ request.tool = "delete_task"
    /\ Requested = UnknownList /\ Enumerated # <<>>
    /\ EnumerationDone /\ IsErrorEnvelope /\ CallsOf(TaskOps) = {}

\* What the resolver handed back in this invocation (handlers other than get_tasks).
Resolutions == {log[i].value : i \in CallsOf({"_resolve_tasklist_id"})}

\* C2: with the alias requested and the enumeration received, the handler
\* works on the first enumerated identifier, and with an empty enumeration it
\* returns the no-lists error.
C2_DefaultIsFirstEnumerated ==
    (TaskToolResponded /\ Requested = DEFAULT /\ EnumerationDone) =>
        IF Enumerated = <<>>
        THEN /\ IsErrorEnvelope
             /\ result.value.error.fmt \in {"No task lists found.",
                                            "No task lists found in your Google Tasks account."}
             /\ \A v \in Resolutions : "tasklist_id" \notin DOMAIN v
        ELSE /\ \A v \in Resolutions : "error" \notin DOMAIN v /\ v.tasklist_id = Enumerated[1]
             /\ request.tool # "get_tasks" => Resolutions # {}
             /\ \A i \in CallsOf(TaskOps) : log[i].kwargs.tasklist = Enumerated[1]
             /\ request.tool = "get_tasks" => CallsOf({"tasks.list"}) # {}
             /\ (~IsErrorEnvelope) => result.value.tasklist_id = Enumerated[1]

C2_Witness ==
    /\ pc = "responded" /\ request.tool = "get_task" /\ Requested = DEFAULT
    /\ Len(Enumerated) = 2 /\ ~IsErrorEnvelope
    /\ result.value.tasklist_id = Enumerated[1]

\* C3: with an explicit identifier requested and the enumeration received:
\* an enumerated identifier is used unchanged; one that is not enumerated
\* yields the not-found error, and both the resolver's result and the
\* handler's envelope carry the whole enumerated set.
C3_ExplicitIdValidated ==
    (TaskToolResponded /\ Requested # DEFAULT /\ EnumerationDone) =>
        IF Requested \in Range(Enumerated)
        THEN /\ \A v \in Resolutions : "error" \notin DOMAIN v /\ v.tasklist_id = Requested
             /\ request.tool # "get_tasks" => Resolutions # {}
             /\ \A i \in CallsOf(TaskOps) : log[i].kwargs.tasklist = Requested
             /\ request.tool = "get_tasks" => CallsOf({"tasks.list"}) # {}
        ELSE /\ \A v \in Resolutions :
                  /\ "error" \in DOMAIN v /\ "tasklist_id" \notin DOMAIN v
                  /\ v.error.with = <<Requested>>
                  /\ v.available_lists = Enumerated
             /\ IsErrorEnvelope
             /\ Requested \in Range(result.value.error.with)
             /\ result.value.available_lists = Enumerated

C3_Witness ==
    /\ pc = "responded" /\ request.tool = "move_task" /\ Requested = UnknownList
    /\ Len(Enumerated) = 2 /\ EnumerationDone /\ IsErrorEnvelope
    /\ result.value.available_lists = Enumerated

\* C4: whenever a remote call of the invocation failed (whatever the call and
\* the exception), the handler returned a response holding an error message,
\* and no handler ever ends by raising.
C4_RemoteFailureIsEnvelope ==
    pc = "responded" =>
        /\ result.kind = "return"
        /\ (\E i \in CallsOf(RemoteOps) : log[i].exc # "") =>
              /\ "error" \in DOMAIN result.value
              /\ result.value.error.fmt # ""

C4_Witness ==
    /\ pc = "responded" /\ request.tool = "update_task"
    /\ \E i \in CallsOf({"tasks.move"}) : log[i].exc = "Exception"
    /\ IsErrorEnvelope

\* C5: every invocation attempts the credential acquisition itself, once;
\* when the provider yields no usable service (it returns nothing or raises),
\* the handler returns an error envelope and the invocation holds no remote
\* call at all, neither the list enumeration nor a task call.  That holds
\* as well for invocations that follow a failed one.
C5_ProviderFailureIsPerCallError ==
    pc = "responded" =>
        /\ Cardinality(CallsOf({"get_google_tasks_service"})) = 1
        /\ \A i \in CallsOf(RemoteOps) :
              \E j \in 1..(i - 1) : log[j].op = "get_google_tasks_service"
        /\ ~GotService(log) => (IsErrorEnvelope /\ CallsOf(RemoteOps) = {})

\* An invocation is served in full after an earlier one failed for want of a credential.
C5_Witness ==
    /\ pc = "responded" /\ failed_before /\ request.tool = "create_task"
    /\ GotService(log) /\ ~IsErrorEnvelope
    /\ CallsOf({"tasks.insert"}) # {}

InvalidDateText(due) == ~HasT(due) /\ ~strptime(due).ok
CreateTaskServed == pc = "responded" /\ request.tool = "create_task" /\ GotService(log)

\* C6: create_task with invalid date text as due returns the validation
\* error and its invocation holds no remote call, whatever tasklist_id was
\* requested.
C6_InvalidDueNoRemoteCall ==
    (CreateTaskServed /\ InvalidDateText(request.args.due)) =>
        /\ IsErrorEnvelope
        /\ result.value.error.fmt = "Invalid date format. Please use YYYY-MM-DD format (e.g., '2024-12-31'). Error: {str(e)}"
        /\ CallsOf(RemoteOps) = {}

\* The validation error is returned after the list enumeration was called.
C6_Witness ==
    /\ CreateTaskServed /\ request.args.due = Due_31_12_2024
    /\ IsErrorEnvelope
    /\ result.value.error.fmt = "Invalid date format. Please use YYYY-MM-DD format (e.g., '2024-12-31'). Error: {str(e)}"
    /\ CallsOf({"tasklists.list"}) # {}

\* Text of the shape YYYY-MM-DD that names a day of the calendar.
IsCalendarDate(due) ==
    /\ Len(due) = 10
    /\ \A i \in {1, 2, 3, 4, 6, 7, 9, 10} : due[i] \in Range(DigitChars)
    /\ due[5] = "-" /\ due[8] = "-"
    /\ strptime(due).ok

Supplied(k, none) == IF request.args[k] = none THEN {} ELSE {k}

\* C7: the insert call of create_task carries: as due, the requested text
\* unchanged when it contains T, and the requested calendar date followed by
\* T00:00:00.000Z when it is a valid YYYY-MM-DD date; a body of title and due,
\* and notes only when supplied; parent and previous only when supplied.
C7_InsertCarriesNormalisedDue ==
    (pc = "responded" /\ request.tool = "create_task") =>
        \A i \in CallsOf({"tasks.insert"}) :
            LET kw == log[i].kwargs
                a == request.args
            IN  /\ HasT(a.due) => kw.body.due = a.due
                /\ (~HasT(a.due) /\ IsCalendarDate(a.due)) =>
                       kw.body.due = a.due \o MidnightSuffix
                /\ DOMAIN kw.body = {"title", "due"} \cup Supplied("notes", NoneStr)
                /\ kw.body.title = a.title
                /\ "notes" \in DOMAIN kw.body => kw.body.notes = a.notes
                /\ DOMAIN kw = {"tasklist", "body"}
                                 \cup (IF a.parent = NoneId THEN {} ELSE {"parent"})
                                 \cup (IF a.position = NoneId THEN {} ELSE {"previous"})
                /\ "parent" \in DOMAIN kw => kw.parent = a.parent
                /\ "previous" \in DOMAIN kw => kw.previous = a.position

\* A calendar date of a year before 1000 goes out with the year's leading zero dropped.
C7_Witness ==
    /\ pc = "responded" /\ request.tool = "create_task"
    /\ request.args.due = Due_0999_01_01
    /\ \E i \in CallsOf({"tasks.insert"}) :
          log[i].kwargs.body.due = <<"9", "9", "9", "-", "0", "1", "-", "0", "1">> \o MidnightSuffix

UpdateTaskResponded == pc = "responded" /\ request.tool = "update_task"
PatchFields == Supplied("title", NoneStr) \cup Supplied("notes", NoneStr)
                  \cup Supplied("due", NoneStr) \cup Supplied("status", NoneId)
Succeeded(op) == \E i \in CallsOf({op}) : log[i].exc = ""

\* C8: every patch call of update_task carries a body holding exactly the
\* fields among title, notes, due, status that the request supplied, each
\* with the supplied value; with none supplied the body is empty, and the
\* patch is still issued once the handler has reached it.
C8_PatchBodyIsSuppliedFields ==
    UpdateTaskResponded =>
        /\ \A i \in CallsOf({"tasks.patch"}) :
              /\ DOMAIN log[i].kwargs.body = PatchFields
              /\ \A k \in PatchFields : log[i].kwargs.body[k] = request.args[k]
              /\ log[i].kwargs.task = request.args.task_id
        /\ Succeeded("tasks.get") => Cardinality(CallsOf({"tasks.patch"})) = 1

C8_Witness ==
    /\ UpdateTaskResponded /\ PatchFields = {}
    /\ request.args.parent = NoneId /\ request.args.position = NoneId
    /\ \E i \in CallsOf({"tasks.patch"}) : log[i].kwargs.body = <<>> /\ log[i].exc = ""
    /\ CallsOf({"tasks.move"}) = {}

MoveRequested == request.args.parent # NoneId \/ request.args.position # NoneId

\* C9: in update_task the move is called exactly when parent or position is
\* supplied and the patch has succeeded, it comes after the patch, and the
\* patch and the move are the only calls on the tasks collection.
C9_PatchAndMoveOnly ==
    UpdateTaskResponded =>
        /\ Succeeded("tasks.patch") =>
              (CallsOf({"tasks.move"}) # {} <=> MoveRequested)
        /\ \A i \in CallsOf({"tasks.move"}) :
              \E j \in 1..(i - 1) : log[j].op = "tasks.patch" /\ log[j].exc = ""
        /\ \A i \in CallsOf(TaskOps) : log[i].op \in {"tasks.patch", "tasks.move"}
        /\ Cardinality(CallsOf(TaskOps)) <= 2

\* The invocation fetched the task before patching it.
C9_Witness ==
    /\ UpdateTaskResponded /\ ~IsErrorEnvelope
    /\ [i \in CallsOf(TaskOps) |-> log[i].op] \in
          {[i \in {k, k + 1, k + 2} |-> <<"tasks.get", "tasks.patch", "tasks.move">>[i - k + 1]]
              : k \in 1..Len(log)}

\* C10: when update_task's patch succeeds and its move then fails, the task
\* is left as the patch made it (the supplied fields changed, parent and
\* position and everything else as before), nothing else in the account
\* changes, no call follows the failed move, and the response is an error
\* envelope about the move that holds nothing but the error.
FailedMoveKeepsPatch ==
    LET a == request'.args
        t == a.task_id
        before == tasks[t].resource
        after == tasks'[t].resource
        last == log'[Len(log')]
        called(ops) == {i \in 1..Len(log') : log'[i].op \in ops}
    IN  (/\ pc = "idle" /\ pc' = "responded" /\ request'.tool = "update_task"
         /\ \E i \in called({"tasks.patch"}) : log'[i].exc = ""
         /\ \E i \in called({"tasks.move"}) : log'[i].exc # "")
        =>
        /\ tasks[t].present /\ tasks'[t].present
        /\ \A k \in {"title", "notes", "due"} :
              IF a[k] # NoneStr THEN after[k] = a[k]
              ELSE /\ k \in DOMAIN after <=> k \in DOMAIN before
                   /\ k \in DOMAIN before => after[k] = before[k]
        /\ after.status = (IF a.status # NoneId THEN a.status ELSE before.status)
        /\ after.position = before.position
        /\ "parent" \in DOMAIN after <=> "parent" \in DOMAIN before
        /\ "parent" \in DOMAIN before => after.parent = before.parent
        /\ DOMAIN after \subseteq DOMAIN before \cup {"title", "notes", "due", "status"}
        /\ tasks'[t].tasklist = tasks[t].tasklist
        /\ \A u \in TaskIds \ {t} : tasks'[u] = tasks[u]
        /\ tasklists' = tasklists
        /\ last.op = "tasks.move" /\ last.exc # ""
        /\ Cardinality(called({"tasks.patch", "tasks.move"})) = 2
        /\ result'.kind = "return"
        /\ DOMAIN result'.value = {"error"}
        /\ result'.value.error.with = <<last.exc>>

C10_FailedMoveKeepsPatch == [][FailedMoveKeepsPatch]_vars

C10_Witness ==
    /\ UpdateTaskResponded /\ request.args.title = TitleB
    /\ Succeeded("tasks.patch")
    /\ \E i \in CallsOf({"tasks.move"}) : log[i].exc # ""
    /\ tasks["t1"].resource.title = TitleB
    /\ tasks["t1"].resource.position = NoneId
    /\ "parent" \notin DOMAIN tasks["t1"].resource
    /\ DOMAIN result.value = {"error"}

\* The status complete_task sends for a value of completed.
StatusFor(completed) == IF completed THEN "completed" ELSE "needsAction"

CompleteTaskStep ==
    LET a == request'.args
        t == a.task_id
        called(ops) == {i \in 1..Len(log') : log'[i].op \in ops}
        patches == called({"tasks.patch"})
    IN  (pc = "idle" /\ pc' = "responded" /\ request'.tool = "complete_task")
        =>
        /\ called(TaskOps) = patches
        /\ Cardinality(patches) <= 1
        /\ \A i \in patches :
              /\ log'[i].kwargs.body = [status |-> StatusFor(a.completed)]
              /\ log'[i].kwargs.task = t
        /\ tasklists' = tasklists
        /\ IF \E i \in patches : log'[i].exc = ""
           THEN /\ tasks' = [tasks EXCEPT ![t].resource.status = StatusFor(a.completed)]
                /\ result'.kind = "return"
                /\ result'.value.task = tasks'[t].resource
           ELSE tasks' = tasks

\* C11 (as the code has it): complete_task issues at most one task-level
\* call, a patch whose body is the status field alone, "completed" for
\* completed=true and "needsAction" for completed=false; a successful patch
\* changes the task's status and nothing else in the account.
C11_CompleteTaskPatchesStatusOnly == [][CompleteTaskStep]_vars

C11_Witness ==
    /\ pc = "responded" /\ request.tool = "complete_task" /\ ~request.args.completed
    /\ \E i \in CallsOf({"tasks.patch"}) :
          log[i].exc = "" /\ log[i].kwargs.body = [status |-> "needsAction"]
    /\ tasks[request.args.task_id].resource.status = "needsAction"
    /\ "title" \in DOMAIN tasks[request.args.task_id].resource

\* C11 as stated: completed=false is sent as status "needs-action".
C11_StatusNeedsDashAction ==
    (pc = "responded" /\ request.tool = "complete_task") =>
        \A i \in CallsOf({"tasks.patch"}) :
            log[i].kwargs.body =
                [status |-> IF request.args.completed THEN "completed" ELSE "needs-action"]

SearchServed == pc = "responded" /\ request.tool = "search_tasks" /\ ~IsErrorEnvelope

\* The items the remote returned to the invocation's tasks.list call (the
\* search leaves the account as it was).
Fetched ==
    LET i == CHOOSE i \in CallsOf({"tasks.list"}) : TRUE
        W == [tasklists |-> tasklists, tasks |-> tasks, token_file |-> token_file,
              log |-> <<>>]
    IN  Get(tasks_list(W, NoFault, log[i].kwargs).value, "items", <<>>)

\* The three conditions on an item; joint is what stands between title and
\* notes in the text searched.  A criterion is given when it is a non-empty
\* string.
Satisfies(t, joint) ==
    LET a == request.args
        given(x) == x # NoneStr /\ x # <<>>
        hasDue == "due" \in DOMAIN t /\ t.due # <<>>
        title == IF "title" \in DOMAIN t THEN t.title ELSE <<>>
        notes == IF "notes" \in DOMAIN t THEN t.notes ELSE <<>>
    IN  /\ given(a.query) => IsSubstr(Lower(a.query), Lower(title \o joint \o notes))
        /\ (given(a.due_before) /\ hasDue) => ~StrLess(a.due_before, t.due)
        /\ (given(a.due_after) /\ hasDue) => ~StrLess(t.due, a.due_after)

\* C12 (as the code has it): search_tasks returns, in the fetched order,
\* exactly the fetched items for which: a given query, lowercased, is a
\* substring of the lowercased text "title, one space, notes"; a given
\* due_before is not below the item's due date, if it has one; a given
\* due_after is not above it, if it has one; total is their number.
C12_SearchReturnsMatches ==
    SearchServed =>
        LET keep(t) == Satisfies(t, <<" ">>)
        IN  /\ result.value.tasks = SelectSeq(Fetched, keep)
            /\ result.value.total = Len(result.value.tasks)

\* A query found only across the space between title and notes.
C12_Witness ==
    /\ SearchServed /\ request.args.query = <<"y", " ", "m">>
    /\ request.args.due_before = Due_2024_12_31
    /\ request.args.include_completed /\ request.args.max_results = 100
    /\ Len(Fetched) = 2 /\ result.value.total = 1
    /\ result.value.tasks[1].id = "t1"

\* C12 as stated: the text searched is title and notes concatenated.
C12_SearchConcatenation ==
    SearchServed =>
        LET keep(t) == Satisfies(t, <<>>)
        IN  result.value.tasks = SelectSeq(Fetched, keep)

\* The identifiers the resolver returned in this invocation.
ResolvedIds == {v.tasklist_id : v \in {w \in Resolutions : "tasklist_id" \in DOMAIN w}}

\* C13: once the list is resolved, delete_task makes exactly one task-level
\* call, a delete for the resolved list and the requested task_id; when it
\* succeeds the response is exactly deleted: true, the resolved tasklist_id
\* and the requested task_id.
C13_DeleteOnceAndReport ==
    (pc = "responded" /\ request.tool = "delete_task" /\ ResolvedIds # {}) =>
        /\ Cardinality(CallsOf(TaskOps)) = 1
        /\ \A i \in CallsOf(TaskOps) :
              /\ log[i].op = "tasks.delete"
              /\ log[i].kwargs = [tasklist |-> CHOOSE l \in ResolvedIds : TRUE,
                                  task |-> request.args.task_id]
              /\ log[i].exc = "" =>
                    /\ result.kind = "return"
                    /\ result.value = [tasklist_id |-> log[i].kwargs.tasklist,
                                       deleted |-> TRUE,
                                       task_id |-> request.args.task_id]
                    /\ ~tasks[request.args.task_id].present

C13_Witness ==
    /\ pc = "responded" /\ request.tool = "delete_task" /\ Requested = DEFAULT
    /\ Len(Enumerated) = 2
    /\ \E i \in CallsOf({"tasks.delete"}) : log[i].exc = ""
    /\ result.value = [tasklist_id |-> Enumerated[1], deleted |-> TRUE, task_id |-> "t1"]

Before(is, js) == \A i \in is, j \in js : i < j

\* C14: an invocation calls the credential provider exactly once.  Given a
\* service, a task-level handler then enumerates the lists exactly once,
\* and only after that makes its task-level calls, each against the
\* identifier that this invocation's enumeration resolves the request to;
\* list_tasklists and create_tasklist run no resolution and make exactly
\* one remote call (the enumeration, the list insert).
C14_OnceCredentialOnceEnumeration ==
    pc = "responded" =>
        /\ Cardinality(CallsOf({"get_google_tasks_service"})) = 1
        /\ Before(CallsOf({"get_google_tasks_service"}), CallsOf(RemoteOps))
        /\ GotService(log) =>
              IF request.tool \in TaskTools
              THEN /\ Cardinality(CallsOf({"tasklists.list"})) = 1
                   /\ CallsOf({"tasklists.insert"}) = {}
                   /\ Before(CallsOf({"tasklists.list"}), CallsOf(TaskOps))
                   /\ \A i \in CallsOf(TaskOps) :
                         /\ log[i].kwargs.tasklist \in Range(Enumerated)
                         /\ log[i].kwargs.tasklist =
                               (IF Requested = DEFAULT THEN Enumerated[1] ELSE Requested)
              ELSE /\ Resolutions = {}
                   /\ Cardinality(CallsOf(RemoteOps)) = 1
                   /\ \A i \in CallsOf(RemoteOps) :
                         log[i].op = (IF request.tool = "list_tasklists"
                                      THEN "tasklists.list" ELSE "tasklists.insert")

\* A fetch on the alias: one credential, one enumeration, then the call on the first list.
C14_Witness ==
    /\ pc = "responded" /\ request.tool = "get_task" /\ Requested = DEFAULT
    /\ GotService(log) /\ Enumerated = <<ListName[1]>>
    /\ Cardinality(CallsOf({"tasklists.list"})) = 1
    /\ \E i \in CallsOf({"tasks.get"}) :
          log[i].exc = "" /\ log[i].kwargs.tasklist = ListName[1]

\* One invocation's run of the credential provider, from the host state it
\* starts in (unprimed) to the steps noted in its log (primed).
ProviderOrder ==
    LET did(op) == \E i \in 1..Len(log') : log'[i].op = op
        failed(op) == \E i \in 1..Len(log') : log'[i].op = op /\ log'[i].exc # ""
        fromEnv == token_env.kind = "creds"
        fromFile == ~fromEnv /\ token_file.kind = "creds"
        unreadable == ~fromEnv /\ token_file.kind = "garbage"
        some == fromEnv \/ fromFile
        creds == IF fromEnv THEN token_env.creds ELSE token_file.creds
        usable == some /\ creds.token /\ ~creds.expired
        refreshable == some /\ ~usable /\ creds.expired /\ creds.refresh_token
        refused == /\ result'.kind = "return" /\ "error" \in DOMAIN result'.value
                   /\ ~GotService(log')
                   /\ \A i \in 1..Len(log') : log'[i].op \notin RemoteOps
    IN  (pc = "idle" /\ pc' = "responded")
        =>
        /\ did("token_env.load") <=> token_env.kind # "unset"
        /\ did("token_file.read") <=> (~fromEnv /\ token_file.kind # "absent")
        /\ did("creds.refresh") <=> refreshable
        /\ did("flow.run_local_server") <=>
              (~unreadable /\ ~usable /\ ~refreshable /\ credentials_file)
        /\ did("creds.refresh") => ~did("flow.run_local_server")
        /\ failed("creds.refresh") => refused
        /\ failed("flow.run_local_server") => refused
        /\ (~unreadable /\ ~usable /\ ~refreshable /\ ~credentials_file) => refused
        /\ (usable /\ ~failed("build")) => GotService(log')

\* C15: the provider uses the credential parsed from the environment
\* variable when there is one and reads the token file only otherwise; it
\* refreshes exactly when the loaded credential is not valid, expired and
\* has a refresh token, and a failed refresh ends the call with an auth
\* error and no consent flow; the consent flow runs exactly when there is
\* neither a valid nor a refreshable credential and the client-secret file
\* exists; without that file, or when consent fails, the call ends with an
\* auth error.
C15_ProviderOrder == [][ProviderOrder]_vars

\* The environment's expired credential fails to refresh although a client
\* secret and a valid token file are there: no consent, no file read.
C15_Witness ==
    /\ pc = "responded" /\ token_env = Stored(ExpiredCreds) /\ credentials_file
    /\ token_file = Stored(ValidCreds)
    /\ \E i \in 1..Len(log) : log[i].op = "creds.refresh" /\ log[i].exc # ""
    /\ \A i \in 1..Len(log) : log[i].op \notin {"flow.run_local_server", "token_file.read"}
    /\ IsErrorEnvelope /\ ~GotService(log)

\* What one invocation does to the token file, from the host state it starts
\* in (unprimed) to its log and the host state it ends in (primed).
TokenFileWrites ==
    LET did(op) == \E i \in 1..Len(log') : log'[i].op = op
        ok(op) == \E i \in 1..Len(log') : log'[i].op = op /\ log'[i].exc = ""
        loaded == IF token_env.kind = "creds" THEN token_env.creds ELSE token_file.creds
        inMemory == IF ok("creds.refresh") THEN Refreshed(loaded) ELSE FreshCreds
        wrote == did("token_file.write")
    IN  (pc = "idle" /\ pc' = "responded")
        =>
        /\ wrote <=> (ok("creds.refresh") \/ ok("flow.run_local_server"))
        /\ ~wrote => token_file' = token_file
        /\ ok("token_file.write") => token_file' = Stored(inMemory)
        /\ wrote => /\ did("build")
                    /\ ok("build") <=> GotService(log')
        /\ \A o \in RelevantOutcomes(token_env, token_file, credentials_file) :
              LET g == get_google_tasks_service(token_env, token_file, credentials_file, o)
                  saves == \E i \in 1..Len(g.events) : g.events[i].op = "token_file.write"
              IN  (g.service.ok /\ saves) => g.service.credentials = inMemory

\* C16: the token file is written after every successful refresh and every
\* successful consent and on no other path; a successful write leaves the
\* in-memory credential in the file; after the write, failed or not, the
\* provider goes on to build the service with the in-memory credential and
\* returns it unless the build itself raises.
C16_TokenFileWrites == [][TokenFileWrites]_vars

\* The write of a refreshed credential failed half way and the call was
\* served all the same.
C16_Witness ==
    /\ pc = "responded" /\ GotService(log) /\ token_file = Garbage
    /\ \E i \in 1..Len(log) : log[i].op = "creds.refresh" /\ log[i].exc = ""
    /\ \E i \in 1..Len(log) : log[i].op = "token_file.write" /\ log[i].exc # ""

\* C16 as stated: whenever the write fails the call returns a service.
C16_WriteFailureStillService ==
    (/\ pc = "responded"
     /\ \E i \in 1..Len(log) : log[i].op = "token_file.write" /\ log[i].exc # "")
    => GotService(log)

\* Both invocations have returned, and each refreshed the credential and
\* wrote it to the token file.
BothRefreshedAndWrote ==
    \A w \in 1..MaxInvocations :
        /\ pc[w].at = "returned"
        /\ \E i \in 1..Len(log[w]) : log[w][i] = Step("creds.refresh", TRUE)
        /\ \E i \in 1..Len(log[w]) : log[w][i] = Step("token_file.write", TRUE)

\* C17: after two unserialised invocations have both refreshed and written,
\* the token file holds the complete serialised credential of one of the two,
\* and each invocation that built a service built it with the credential it
\* refreshed itself.
C17_LastWriterWins ==
    BothRefreshedAndWrote
    => /\ \E w \in 1..MaxInvocations : token_file = to_json(pc[w].creds)
       /\ \A w \in 1..MaxInvocations :
             /\ Valid(pc[w].creds)
             /\ result[w].service.ok => result[w].service.credentials = pc[w].creds

\* Both wrote, each holds its own refreshed credential, and the token file
\* is the shorter text followed by the tail of the longer one: not a
\* credential at all.
C17_Witness ==
    /\ BothRefreshedAndWrote
    /\ \A w \in 1..MaxInvocations : result[w].service.ok
    /\ \A w \in 1..MaxInvocations : result[w].service.credentials = pc[w].creds
    /\ pc[1].creds # pc[2].creds
    /\ from_authorized_user_file(token_file) = Garbage
    /\ token_file = <<"{", "a", ",", "1", "}", "}">>

\* get_tasks has answered with its success shape.
GetTasksSucceeded ==
    /\ pc = "responded" /\ request.tool = "get_tasks"
    /\ result.kind = "return" /\ "error" \notin DOMAIN result.value

\* What the remote answers to the task-list call the log holds at position i.
RemoteItems(i) ==
    LET shown(t) == log[i].kwargs.showCompleted \/ t["status"] # "completed"
        held == SelectSeq(TasksFrom(tasks, log[i].kwargs.tasklist, 1), shown)
    IN  SubSeq(held, 1, IF log[i].kwargs.maxResults < Len(held)
                        THEN log[i].kwargs.maxResults ELSE Len(held))

\* C18: a successful get_tasks made exactly one tasks.list call, on the list
\* the request resolves to and with max_results, show_completed and
\* show_deleted as it received them; it returns one projected task per item
\* of the remote response, in the same order, total_tasks is their number,
\* and available_lists is the sequence of identifiers it enumerated.
C18_GetTasksForwardsAndProjects ==
    GetTasksSucceeded
    => /\ Cardinality(CallsOf(TaskOps)) = 1
       /\ \A i \in CallsOf(TaskOps) :
             /\ log[i].op = "tasks.list" /\ log[i].exc = ""
             /\ log[i].kwargs =
                   [tasklist |-> IF Requested = DEFAULT THEN Enumerated[1] ELSE Requested,
                    maxResults |-> request.args.max_results,
                    showCompleted |-> request.args.show_completed,
                    showDeleted |-> request.args.show_deleted]
             /\ result.value.tasklist_id = log[i].kwargs.tasklist
             /\ Len(result.value.tasks) = Len(RemoteItems(i))
             /\ \A k \in 1..Len(RemoteItems(i)) :
                   /\ DOMAIN result.value.tasks[k] =
                         {"id", "title", "status", "notes", "due", "updated", "position",
                          "parent", "links"}
                   /\ result.value.tasks[k].id = RemoteItems(i)[k]["id"]
                   /\ result.value.tasks[k].title = RemoteItems(i)[k]["title"]
                   /\ result.value.tasks[k].status = RemoteItems(i)[k]["status"]
       /\ result.value.total_tasks = Len(result.value.tasks)
       /\ result.value.available_lists = Enumerated
       /\ result.value.max_results = request.args.max_results
       /\ result.value.show_completed = request.args.show_completed
       /\ result.value.show_deleted = request.args.show_deleted

\* Both filters on and a limit above the number of tasks: the open task and
\* the completed one come back in the remote's order.
C18_Witness ==
    /\ GetTasksSucceeded
    /\ request.args.show_completed /\ request.args.show_deleted
    /\ request.args.max_results = 100
    /\ result.value.total_tasks = 2
    /\ result.value.tasks[1].id = "t1" /\ result.value.tasks[2].id = "t2"
    /\ result.value.tasks[2].status = "completed"

\* What _resolve_tasklist_id returns for the request in hand on the account
\* as it is (no handler but create_tasklist changes the lists).
ResolverSays ==
    _resolve_tasklist_id([tasklists |-> tasklists, tasks |-> tasks,
                          token_file |-> token_file, log |-> <<>>],
                         NoFault, Requested).value

\* get_tasks has answered after its own enumeration succeeded.
GetTasksResolved ==
    /\ pc = "responded" /\ request.tool = "get_tasks"
    /\ GotService(log) /\ EnumerationDone

\* C19: the inline resolution of get_tasks and _resolve_tasklist_id agree for
\* every requested identifier and every enumeration: where the resolver
\* returns an identifier get_tasks queries that list (and reports it and the
\* enumerated identifiers on success); where the resolver reports no lists or
\* not found, get_tasks ends with the error of the same kind, no task-level
\* call, and the same available identifiers (none at all when there are no
\* lists).
C19_InlineResolutionAgrees ==
    GetTasksResolved
    => IF "error" \notin DOMAIN ResolverSays
       THEN /\ \E i \in CallsOf(TaskOps) : log[i].kwargs.tasklist = ResolverSays.tasklist_id
            /\ \A i \in CallsOf(TaskOps) : log[i].kwargs.tasklist = ResolverSays.tasklist_id
            /\ result.kind = "return"
            /\ result.value.tasklist_id = ResolverSays.tasklist_id
            /\ ~IsErrorEnvelope => result.value.available_lists = ResolverSays.available_lists
       ELSE /\ IsErrorEnvelope
            /\ CallsOf(TaskOps) = {}
            /\ Get(result.value, "available_lists", <<>>) = ResolverSays.available_lists
            /\ (ResolverSays.error.fmt = "No task lists found.")
                  <=> (result.value.error.fmt =
                          "No task lists found in your Google Tasks account.")
            /\ (ResolverSays.error.fmt = "Task list '{tasklist_id}' not found.")
                  <=> (result.value.error.fmt =
                          "Task list '{tasklist_id}' not found. Available lists: {available_lists}")

\* An explicit identifier that the two-list enumeration does not hold: both
\* say not found and name both lists.
C19_Witness ==
    /\ GetTasksResolved
    /\ Requested = UnknownList
    /\ Len(Enumerated) = 2
    /\ "error" \in DOMAIN ResolverSays
    /\ IsErrorEnvelope
    /\ result.value.available_lists = Enumerated
    /\ ResolverSays.available_lists = Enumerated

\* One update_task invocation, from the account it starts on (unprimed) to
\* its log, its response and the account it leaves (primed).
FailedFetchStops ==
    LET fetches == {i \in 1..Len(log') : log'[i].op = "tasks.get"}
        writes == {i \in 1..Len(log') : log'[i].op \in {"tasks.patch", "tasks.move"}}
    IN  (pc = "idle" /\ pc' = "responded" /\ request'.tool = "update_task")
        =>
        /\ \A i \in writes :
              \E j \in fetches :
                 /\ j < i /\ log'[j].exc = ""
                 /\ log'[j].kwargs = [tasklist |-> log'[i].kwargs.tasklist,
                                      task |-> request'.args.task_id]
        /\ (\E j \in fetches : log'[j].exc # "")
              => /\ result'.kind = "return" /\ "error" \in DOMAIN result'.value
                 /\ writes = {}
                 /\ tasks' = tasks /\ tasklists' = tasklists

\* C20: update_task issues the patch (and the move) only after a successful
\* remote get of the task in the resolved list; when that get fails the
\* handler returns an error envelope, issues neither the patch nor the move,
\* and the remote task is left as it was.
C20_FailedFetchStops == [][FailedFetchStops]_vars

\* An update with new fields and a move for a task the resolved list does
\* not hold: the get is refused, nothing else is sent, both tasks are intact.
C20_Witness ==
    /\ pc = "responded" /\ request.tool = "update_task"
    /\ request.args.task_id = UnknownTask
    /\ request.args.title # NoneStr /\ request.args.parent # NoneId
    /\ \E i \in 1..Len(log) : log[i].op = "tasks.get" /\ log[i].exc = "HttpError"
    /\ CallsOf({"tasks.patch", "tasks.move"}) = {}
    /\ IsErrorEnvelope
    /\ tasks = TwoTasks

\* One invocation on a host whose environment variable holds a parseable
\* credential, from the host state it starts in (unprimed) to its log and
\* the host state it ends in (primed).
EnvShadowsFile ==
    LET did(op) == \E i \in 1..Len(log') : log'[i].op = op
        ok(op) == \E i \in 1..Len(log') : log'[i].op = op /\ log'[i].exc = ""
        refreshable == /\ token_env.creds.expired /\ token_env.creds.refresh_token
    IN  (pc = "idle" /\ pc' = "responded" /\ token_env.kind = "creds")
        =>
        /\ ~did("token_file.read")
        /\ token_env' = token_env
        /\ \A o \in ProviderOutcomes :
              LET here == get_google_tasks_service(token_env, token_file, credentials_file, o)
                  bare == get_google_tasks_service(token_env, AbsentFile, credentials_file, o)
              IN  here.events = bare.events /\ here.service = bare.service
        /\ refreshable
              => /\ did("creds.refresh")
                 /\ ok("creds.refresh") <=> did("token_file.write")
                 /\ ok("token_file.write") => token_file' = Stored(Refreshed(token_env.creds))
                 /\ ~ok("creds.refresh") => (token_file' = token_file /\ ~GotService(log'))
        /\ ~refreshable => ~did("creds.refresh")

\* C21: while the environment variable holds a parseable credential no
\* invocation reads the token file, and what the provider does and returns
\* does not depend on what the file holds, so a credential that an earlier
\* invocation persisted is not used; the environment is never updated, so
\* when its credential is expired and has a refresh token every invocation
\* loads it again and attempts the refresh again, and rewrites the token
\* file each time the refresh succeeds (a failed refresh leaves the file as
\* it was and the call without a service; an expired credential without a
\* refresh token is never refreshed).
C21_EnvShadowsFile == [][EnvShadowsFile]_vars

\* A later invocation of a process whose earlier invocation got no service:
\* the expired environment credential was loaded, refreshed and written once
\* more, and the token file was not read.
C21_Witness ==
    /\ pc = "responded" /\ failed_before
    /\ token_env = Stored(ExpiredCreds)
    /\ token_file = Stored(Refreshed(ExpiredCreds))
    /\ \A i \in 1..Len(log) : log[i].op # "token_file.read"
    /\ \E i \in 1..Len(log) : log[i] = Step("token_env.load", TRUE)
    /\ \E i \in 1..Len(log) : log[i] = Step("creds.refresh", TRUE)
    /\ \E i \in 1..Len(log) : log[i] = Step("token_file.write", TRUE)
    /\ GotService(log)

\* C21 as stated: with an expired credential in the environment every
\* invocation refreshes again and rewrites the token file.
C21_ExpiredEnvAlwaysRewrites ==
    (/\ pc = "responded"
     /\ token_env.kind = "creds" /\ token_env.creds.expired)
    => /\ \E i \in 1..Len(log) : log[i].op = "creds.refresh"
       /\ \E i \in 1..Len(log) : log[i].op = "token_file.write"

====
